---- MODULE Spec2Model ----
(***************************************************************************)
(* Concurrency-control layer of the zeroLight backend:                     *)
(*   - the database-backed distributed lock (lockService.ts),              *)
(*   - the user service's optimistic-version updates (userService.ts),     *)
(*   - the session reconciliation of sessionService.ts.                    *)
(*                                                                         *)
(* Every request is a process.  One action is one awaited database call    *)
(* together with the local code that follows it up to the next await.      *)
(* Time is counted in units of 100 ms, which divides every duration of the *)
(* program (300 ms, 5 s, 30 s, 30 days).  A process may be arbitrarily     *)
(* slow between two awaits, so the clock may advance between any two       *)
(* steps; it advances to the instants at which something can change: the   *)
(* end of a sleep, or the first instant at which some expiresAt has        *)
(* passed.                                                                 *)
(***************************************************************************)
EXTENDS Integers, Sequences, FiniteSets, TLC

VARIABLES
  now,       \* Date.now() / new Date(), the wall clock, in units of 100 ms
  locks,     \* table distributed_locks: set of rows
  users,     \* table users: set of rows
  sessions,  \* table sessions: set of rows
  pc,        \* pc[p]: position of request p in its handler
  op,        \* op[p]: the operation request p runs, with its arguments
  lk,        \* lk[p]: stack of acquireLock frames (locals of acquireLock/withLock)
  loc,       \* loc[p]: locals of the operation body (rows read, fn outcome)
  result,    \* result[p]: what the operation returned to its caller
  ran,       \* ran[p]: depths of the withLock calls of p whose fn has been invoked
  wrote      \* wrote[p]: p has written a user or session row

vars == <<now, locks, users, sessions, pc, op, lk, loc, result, ran, wrote>>

----------------------------------------------------------------------------
(* Bounds *)

NumProcs == 2
MaxInFlight == 2
MaxTime  == 55
MaxRetriesOpt == 1
MaxRenews == 1
MaxLoopRetries == 3

Procs == 1..NumProcs

(* null for string columns, for row-valued results and for optional numbers *)
Null == "null"
NoRow == [null |-> TRUE]
NoVersion == -1
NoResult == [pending |-> TRUE]

(* Inputs *)

Names == <<"alice", "bob", "carol", "dave", "erin">>

\* gen_random_uuid() of the row inserted by request p
NewUserId(p) == <<"user-a", "user-b", "user-c", "user-d", "user-e">>[p]

NewPrivyIds      == {"privy:new"}
UpdateTargets    == {"u1"}
ExpectedVersions == {NoVersion, 0}
Wallets          == {"0xw1"}

(* Program constants *)

DEFAULT_TIMEOUT     == 300
DEFAULT_RETRIES     == 10
DEFAULT_RETRY_DELAY == 3

\* DEFAULT_SESSION_EXPIRY_DAYS = 30
SessionLifetime == 30 * 24 * 60 * 60 * 10


----------------------------------------------------------------------------
(* Lock store: distributed_locks(lock_key PRIMARY KEY, lock_owner,         *)
(* expires_at)                                                             *)

LockRow(key, owner, expiresAt) ==
  [lockKey |-> key, lockOwner |-> owner, expiresAt |-> expiresAt]

\* a store that only rejects an insert repeating key and owner
LockInsertOkNoPk(key, owner) ==
  ~ \E r \in locks : r.lockKey = key /\ r.lockOwner = owner

\* prisma.distributedLock.create succeeds unless the primary key exists (P2002)
LockInsertOk(key, owner) ==
  ~ \E r \in locks : r.lockKey = key

\* a reaper that deletes the record of the key whether expired or not
ExpiredLockRowsAny(key, t) ==
  { r \in locks : r.lockKey = key }

\* deleteMany({ where: { lockKey, expiresAt: { lt: now } } })
ExpiredLockRows(key, t) ==
  { r \in locks : r.lockKey = key /\ r.expiresAt < t }

\* releaseLock that forgets the owner in its where clause
ReleaseRowsAnyOwner(key, owner) ==
  { r \in locks : r.lockKey = key }

\* releaseLock: deleteMany({ where: { lockKey, lockOwner } })
ReleaseRows(key, owner) ==
  { r \in locks : r.lockKey = key /\ r.lockOwner = owner }

\* a row is live while its expiresAt has not passed
Live(r) == ~ (r.expiresAt < now)

----------------------------------------------------------------------------
(* Results.  withLock returns fn's value or propagates an exception; the   *)
(* service operations catch every exception and return an error record.    *)

Returned(v) == [kind |-> "return", val |-> v]
Thrown(e)   == [kind |-> "throw", val |-> e]

\* new Error(`Failed to acquire lock: ${lockKey}`)
LockFailedError(key) ==
  [code |-> "Error", target |-> Null, message |-> "Failed to acquire lock", key |-> key]

\* the { data, error, success } records of DatabaseResponse
Success(data) == [success |-> TRUE, error |-> Null, data |-> data]
Failure(msg)  == [success |-> FALSE, error |-> msg, data |-> NoRow]

\* the catch block of createUser
CreateUserCatch(e) ==
  IF e.code = "P2002" /\ e.target = "privy_id"
    THEN Failure("User with this Privy ID already exists")
  ELSE IF e.code = "P2002" /\ e.target = "wallet_address"
    THEN Failure("Wallet address already registered")
  ELSE Failure(e.message)

\* the catch block of updateUser
UpdateUserCatch(e) ==
  IF e.code = "P2002" /\ e.target = "wallet_address"
    THEN Failure("Wallet address already registered")
  ELSE Failure(e.message)

\* the catch blocks of deleteUser and getOrCreateSession
MessageCatch(e) == Failure(e.message)

\* operations without their try/catch: an exception goes on to the caller
OpResultUncaught(o, outcome) == outcome

\* what operation o hands to its caller when its withLock call ended with
\* outcome (a returned value or a thrown exception)
OpResult(o, outcome) ==
  IF o.name = "withLock" \/ outcome.kind = "return" THEN outcome
  ELSE IF o.name = "createUser" THEN Returned(CreateUserCatch(outcome.val))
  ELSE IF o.name = "updateUser" THEN Returned(UpdateUserCatch(outcome.val))
  ELSE Returned(MessageCatch(outcome.val))

----------------------------------------------------------------------------
(* acquireLock / releaseLock / renewLock / withLock                        *)

Top(p) == lk[p][Len(lk[p])]

SetTop(p, f) == [lk EXCEPT ![p] = [@ EXCEPT ![Len(@)] = f]]

\* locals of one acquireLock call: lockOwner = uuidv4() is a fresh token,
\* expiresAt = Date.now() + timeout is computed once, before the loop;
\* slept adds up the delays the call has passed to sleep()
NewFrame(p, key, timeout, retries, retryDelay) ==
  [key |-> key, owner |-> <<p, Len(lk[p]) + 1>>, timeout |-> timeout,
   expiresAt |-> now + timeout,
   attempt |-> 0, retries |-> retries, retryDelay |-> retryDelay, wake |-> 0,
   slept |-> 0]

\* a reap that does not use up an attempt
AttemptAfterReapFree(attempt) == attempt

\* `continue` after a successful reap runs the for loop's attempt++
AttemptAfterReap(attempt) == attempt + 1

\* a back-off that is one retryDelay longer on every attempt
BackoffDelayLonger(retryDelay, attempt) == retryDelay * (attempt + 2)

\* sleep(retryDelay * (attempt + 1))
BackoffDelay(retryDelay, attempt) == retryDelay * (attempt + 1)

\* a withLock that runs fn whatever acquireLock returned
WithLockEntersFnAlways(acquired) == TRUE

\* withLock: if (!lockOwner) throw ...; otherwise fn is invoked
WithLockEntersFn(acquired) == acquired

\* a withLock that releases only after a normal return (no finally)
ReleasesOnExitNoFinally(outcome) == outcome.kind = "return"

\* withLock: try { return await fn() } finally { await releaseLock(...) }
ReleasesOnExit(outcome) == TRUE

\* the withLock call of p is over and its frame is popped.  The outermost
\* call returns to the request's caller; the updateUser call made inside
\* registerWallet's fn returns its result record to that fn, which returns it
FinishWith(p, outcome, released) ==
  /\ lk' = [lk EXCEPT ![p] = SubSeq(@, 1, Len(@) - 1)]
  /\ IF Len(lk[p]) = 1
       THEN /\ result' = [result EXCEPT ![p] = OpResult(op[p], outcome)]
            /\ pc' = [pc EXCEPT ![p] = "done"]
            /\ loc' = [loc EXCEPT ![p] = released]
       ELSE /\ loc' = [loc EXCEPT ![p] =
                        [out |-> OpResult([name |-> "updateUser"], outcome)]]
            /\ pc' = [pc EXCEPT ![p] = "rel"]
            /\ UNCHANGED result

\* withLock ends without a releaseLock call
Finish(p, outcome) == FinishWith(p, outcome, NoRow)

\* releaseLock: return result.count > 0
ReleaseLockResult(key, owner) == Cardinality(ReleaseRows(key, owner)) > 0

\* what the outermost releaseLock call of a request returned, and the records
\* of its key that the call left in the table
Released(key, owner) ==
  [released |-> ReleaseLockResult(key, owner),
   left     |-> { r \in locks : r.lockKey = key } \ ReleaseRows(key, owner)]

\* acquireLock returned null
AcquireGaveUp(p) ==
  IF WithLockEntersFn(FALSE)
    THEN /\ pc' = [pc EXCEPT ![p] = "fn"]
         /\ ran' = [ran EXCEPT ![p] = @ \cup {Len(lk[p])}]
         /\ UNCHANGED <<lk, loc, result>>
    ELSE /\ Finish(p, Thrown(LockFailedError(Top(p).key)))
         /\ UNCHANGED ran

\* acquireLock has returned lockOwner: withLock keeps the key and the owner
\* token, the loop's locals are gone
Acquired(f) == [f EXCEPT !.attempt = 0, !.wake = 0, !.slept = 0]

\* one pass of the for loop: prisma.distributedLock.create
AcquireTry(p) ==
  /\ pc[p] = "acq"
  /\ LET f == Top(p) IN
       IF LockInsertOk(f.key, f.owner)
         THEN /\ locks' = locks \cup {LockRow(f.key, f.owner, f.expiresAt)}
              /\ IF WithLockEntersFn(TRUE)
                   THEN /\ pc' = [pc EXCEPT ![p] = "fn"]
                        /\ ran' = [ran EXCEPT ![p] = @ \cup {Len(lk[p])}]
                        /\ lk' = SetTop(p, Acquired(f))
                        /\ UNCHANGED <<loc, result>>
                   ELSE /\ Finish(p, Thrown(LockFailedError(f.key)))
                        /\ UNCHANGED ran
         ELSE /\ pc' = [pc EXCEPT ![p] = "reap"]
              /\ UNCHANGED <<locks, lk, loc, result, ran>>
  /\ UNCHANGED <<now, users, sessions, op, wrote>>

\* the P2002 branch: reap an expired record, or back off, or give up
AcquireReap(p) ==
  /\ pc[p] = "reap"
  /\ LET f == Top(p)
         expired == ExpiredLockRows(f.key, now)
     IN
       IF expired # {}
         THEN /\ locks' = locks \ expired
              /\ IF AttemptAfterReap(f.attempt) <= f.retries
                   THEN /\ lk' = SetTop(p, [f EXCEPT !.attempt = AttemptAfterReap(f.attempt)])
                        /\ pc' = [pc EXCEPT ![p] = "acq"]
                        /\ UNCHANGED <<loc, result, ran>>
                   ELSE AcquireGaveUp(p)
         ELSE /\ UNCHANGED locks
              /\ IF f.attempt < f.retries
                   THEN /\ lk' = SetTop(p, [f EXCEPT
                                     !.wake = now + BackoffDelay(f.retryDelay, f.attempt),
                                     !.slept = @ + BackoffDelay(f.retryDelay, f.attempt)])
                        /\ pc' = [pc EXCEPT ![p] = "sleep"]
                        /\ UNCHANGED <<loc, result, ran>>
                   ELSE AcquireGaveUp(p)
  /\ UNCHANGED <<now, users, sessions, op, wrote>>

\* the sleep is over: `continue` runs attempt++
AcquireWake(p) ==
  /\ pc[p] = "sleep"
  /\ now >= Top(p).wake
  /\ lk' = SetTop(p, [Top(p) EXCEPT !.attempt = @ + 1, !.wake = 0])
  /\ pc' = [pc EXCEPT ![p] = "acq"]
  /\ UNCHANGED <<now, locks, users, sessions, op, loc, result, ran, wrote>>

\* the finally block of withLock, then the operation returns
Release(p) ==
  /\ pc[p] = "rel"
  /\ LET f == Top(p) IN
       locks' = IF ReleasesOnExit(loc[p].out)
                  THEN locks \ ReleaseRows(f.key, f.owner)
                  ELSE locks
  /\ IF ReleasesOnExit(loc[p].out)
       THEN FinishWith(p, loc[p].out, Released(Top(p).key, Top(p).owner))
       ELSE Finish(p, loc[p].out)
  /\ UNCHANGED <<now, users, sessions, op, ran, wrote>>

\* config/prisma.ts: the periodic deleteMany of every expired lock row
CleanupExpiredLocks ==
  /\ \E r \in locks : r.expiresAt < now
  /\ locks' = { r \in locks : ~ (r.expiresAt < now) }
  /\ UNCHANGED <<now, users, sessions, pc, op, lk, loc, result, ran, wrote>>

\* instants at which a sleep ends or an expiresAt has just passed
TickTargets ==
  { t \in ({ r.expiresAt + 1 : r \in locks }
           \cup { lk[p][i].expiresAt + 1 : <<p, i>> \in { <<q, j>> \in Procs \X (1..2) : j <= Len(lk[q]) } }
           \cup { Top(p).wake : p \in { q \in Procs : pc[q] = "sleep" } }
           \cup { r.expiresAt + 1 : r \in sessions }) :
      t > now /\ t <= MaxTime }

Tick ==
  /\ \E t \in TickTargets : now' = t
  /\ UNCHANGED <<locks, users, sessions, pc, op, lk, loc, result, ran, wrote>>

----------------------------------------------------------------------------
(* Direct callers of withLock: requests that run an arbitrary fn under a   *)
(* lock key, with caller-chosen options.  fn returns a value or throws;    *)
(* it may renew its lock; the process may die inside fn.                   *)

LockKeys   == {<<"user", "42">>}
Timeouts   == {50}
Extensions == {20}
FnOutcomes == {Returned(Success(NoRow)),
               Thrown([code |-> "Error", target |-> Null, message |-> "fn failed"])}

InitTables ==
  /\ now = 0
  /\ locks = {}
  /\ pc = [p \in Procs |-> "idle"]
  /\ op = [p \in Procs |-> [name |-> "none"]]
  /\ lk = [p \in Procs |-> <<>>]
  /\ loc = [p \in Procs |-> NoRow]
  /\ result = [p \in Procs |-> NoResult]
  /\ ran = [p \in Procs |-> {}]
  /\ wrote = [p \in Procs |-> FALSE]

InitLock ==
  /\ InitTables
  /\ users = {}
  /\ sessions = {}

\* requests are numbered in their order of arrival, and at most MaxInFlight
\* of them are being served at the same instant
CanStart(p) ==
  /\ pc[p] = "idle"
  /\ \A q \in Procs : q < p => pc[q] # "idle"
  /\ Cardinality({ q \in Procs : pc[q] \notin {"idle", "done", "crashed"} }) < MaxInFlight

\* withLock(lockKey, fn, { timeout, retries, retryDelay }): acquireLock starts
StartWithLock(p) ==
  /\ CanStart(p)
  /\ \E key \in LockKeys, timeout \in Timeouts, retries \in {MaxRetriesOpt} :
       /\ op' = [op EXCEPT ![p] = [name |-> "withLock", key |-> key]]
       /\ lk' = [lk EXCEPT ![p] = Append(@, NewFrame(p, key, timeout, retries, DEFAULT_RETRY_DELAY))]
  /\ pc' = [pc EXCEPT ![p] = "acq"]
  /\ loc' = [loc EXCEPT ![p] = [out |-> NoResult, renews |-> 0, renewed |-> FALSE, others |-> {}]]
  /\ UNCHANGED <<now, locks, users, sessions, result, ran, wrote>>

\* fn returns or throws
FnExit(p) ==
  /\ pc[p] = "fn"
  /\ op[p].name = "withLock"
  /\ \E o \in FnOutcomes : loc' = [loc EXCEPT ![p].out = o]
  /\ pc' = [pc EXCEPT ![p] = "rel"]
  /\ UNCHANGED <<now, locks, users, sessions, op, lk, result, ran, wrote>>

\* renewLock that forgets the owner in its where clause
RenewRowsAnyOwner(key, owner) ==
  { r \in locks : r.lockKey = key }

\* renewLock: updateMany({ where: { lockKey, lockOwner }, ... })
RenewRows(key, owner) ==
  { r \in locks : r.lockKey = key /\ r.lockOwner = owner }

\* renewLock: return result.count > 0
RenewLockResult(key, owner) == Cardinality(RenewRows(key, owner)) > 0

\* renewLock(lockKey, lockOwner, additionalTime) called from inside fn:
\* updateMany({ where: { lockKey, lockOwner }, data: { expiresAt } }); the
\* frame remembers the expiresAt that p last gave to its record.  fn renews
\* at most once, and at most MaxRenews of the requests in flight have renewed;
\* loc keeps what the call returned and the other records of the key it met
RenewLock(p) ==
  /\ pc[p] = "fn"
  /\ op[p].name = "withLock"
  /\ loc[p].renews = 0
  /\ Cardinality({ q \in Procs : pc[q] \in {"fn", "rel"} /\ loc[q].renews = 1 }) < MaxRenews
  /\ \E ext \in Extensions :
       LET f == Top(p)
           mine == RenewRows(f.key, f.owner)
       IN /\ locks' = (locks \ mine) \cup { [r EXCEPT !.expiresAt = now + ext] : r \in mine }
          /\ loc' = [loc EXCEPT ![p].renews = @ + 1,
                                ![p].renewed = RenewLockResult(f.key, f.owner),
                                ![p].others = { r \in locks : r.lockKey = f.key } \ mine]
          /\ lk' = IF mine # {} THEN SetTop(p, [f EXCEPT !.expiresAt = now + ext]) ELSE lk
  /\ UNCHANGED <<now, users, sessions, pc, op, result, ran, wrote>>

\* the process dies inside fn: its lock record is never released
Crash(p) ==
  /\ pc[p] = "fn"
  /\ op[p].name = "withLock"
  /\ pc' = [pc EXCEPT ![p] = "crashed"]
  /\ UNCHANGED <<now, locks, users, sessions, op, lk, loc, result, ran, wrote>>

NextLock ==
  \/ \E p \in Procs : StartWithLock(p)
  \/ \E p \in Procs : AcquireTry(p)
  \/ \E p \in Procs : AcquireReap(p)
  \/ \E p \in Procs : AcquireWake(p)
  \/ \E p \in Procs : FnExit(p)
  \/ \E p \in Procs : RenewLock(p)
  \/ \E p \in Procs : Crash(p)
  \/ \E p \in Procs : Release(p)
  \/ CleanupExpiredLocks
  \/ Tick

SpecLock == InitLock /\ [][NextLock]_vars

(* Callers of withLock that find the key held by a record that stays live: *)
(* a holder took the lock at time 0 with the default timeout.  Each caller *)
(* chooses its retries and retryDelay, and calls follow one another.       *)

RetryCounts == 0..MaxLoopRetries
RetryDelays == {0, 1, DEFAULT_RETRY_DELAY}

InitBackoff ==
  /\ now = 0
  /\ locks = { LockRow(key, <<0, 1>>, DEFAULT_TIMEOUT) : key \in LockKeys }
  /\ users = {}
  /\ sessions = {}
  /\ pc = [p \in Procs |-> "idle"]
  /\ op = [p \in Procs |-> [name |-> "none"]]
  /\ lk = [p \in Procs |-> <<>>]
  /\ loc = [p \in Procs |-> NoRow]
  /\ result = [p \in Procs |-> NoResult]
  /\ ran = [p \in Procs |-> {}]
  /\ wrote = [p \in Procs |-> FALSE]

StartContender(p) ==
  /\ CanStart(p)
  /\ \A q \in Procs : pc[q] \in {"idle", "done"}
  /\ \E key \in LockKeys, timeout \in Timeouts, retries \in RetryCounts, retryDelay \in RetryDelays :
       /\ op' = [op EXCEPT ![p] = [name |-> "withLock", key |-> key]]
       /\ lk' = [lk EXCEPT ![p] = Append(@, NewFrame(p, key, timeout, retries, retryDelay))]
  /\ pc' = [pc EXCEPT ![p] = "acq"]
  /\ loc' = [loc EXCEPT ![p] = [out |-> NoResult, renews |-> 0, renewed |-> FALSE, others |-> {}]]
  /\ UNCHANGED <<now, locks, users, sessions, result, ran, wrote>>

NextBackoff ==
  \/ \E p \in Procs : StartContender(p)
  \/ \E p \in Procs : AcquireTry(p)
  \/ \E p \in Procs : AcquireReap(p)
  \/ \E p \in Procs : AcquireWake(p)
  \/ Tick

SpecBackoff == InitBackoff /\ [][NextBackoff]_vars

(* A timed hand-over.  A holder takes the lock with a short timeout and    *)
(* stays in fn for longer than that; one contender arrives while the holder *)
(* is in fn, with the default retries and retryDelay.  Database calls take  *)
(* no time: the clock advances only when no call is pending, and only up to *)
(* the next instant at which a sleep or the holder's fn ends.               *)

HandoffTimeouts == {10}
HoldTimes       == {15}

StartHolder(p) ==
  /\ CanStart(p)
  /\ \A q \in Procs : pc[q] = "idle"
  /\ \E key \in LockKeys, timeout \in HandoffTimeouts, holds \in HoldTimes :
       /\ op' = [op EXCEPT ![p] = [name |-> "withLock", key |-> key,
                                   role |-> "holder", holds |-> holds]]
       /\ lk' = [lk EXCEPT ![p] = Append(@, NewFrame(p, key, timeout,
                                              DEFAULT_RETRIES, DEFAULT_RETRY_DELAY))]
  /\ pc' = [pc EXCEPT ![p] = "acq"]
  /\ loc' = [loc EXCEPT ![p] = [out |-> NoResult, renews |-> 0, renewed |-> FALSE, others |-> {}]]
  /\ UNCHANGED <<now, locks, users, sessions, result, ran, wrote>>

\* the holder is the only request so far and is inside fn
HolderInFn ==
  \E q \in Procs :
    /\ pc[q] = "fn" /\ op[q].role = "holder"
    /\ \A r \in Procs \ {q} : pc[r] = "idle"

StartHandoffContender(p) ==
  /\ CanStart(p)
  /\ HolderInFn
  /\ \E q \in Procs : pc[q] = "fn" /\
       op' = [op EXCEPT ![p] = [name |-> "withLock", key |-> op[q].key,
                                role |-> "contender"]]
  /\ \E timeout \in HandoffTimeouts :
       lk' = [lk EXCEPT ![p] = Append(@, NewFrame(p, CHOOSE k \in LockKeys : TRUE, timeout,
                                              DEFAULT_RETRIES, DEFAULT_RETRY_DELAY))]
  /\ pc' = [pc EXCEPT ![p] = "acq"]
  /\ loc' = [loc EXCEPT ![p] = [out |-> NoResult, renews |-> 0, renewed |-> FALSE, others |-> {}]]
  /\ UNCHANGED <<now, locks, users, sessions, result, ran, wrote>>

\* the instant at which the holder's fn returns: it entered fn when it called
\* acquireLock, since its first insert succeeded
HoldEnd(p) == (Top(p).expiresAt - Top(p).timeout) + op[p].holds

\* fn of the holder returns or throws once it has run for its hold time
HoldOver(p) ==
  /\ op[p].name = "withLock"
  /\ pc[p] = "fn"
  /\ op[p].role = "holder"
  /\ now >= HoldEnd(p)
  /\ FnExit(p)

\* the instants at which something is due: the end of a sleep, the end of
\* the holder's fn, and, while the contender has not arrived, the next instant
Deadlines ==
  { Top(p).wake : p \in { q \in Procs : pc[q] = "sleep" } }
    \cup { HoldEnd(p) : p \in { q \in Procs : pc[q] = "fn" /\ op[q].role = "holder" } }
    \cup { now + 1 : p \in { q \in Procs : HolderInFn } }

TickToDeadline ==
  /\ \A p \in Procs : pc[p] \notin {"acq", "reap", "rel"}
  /\ \E t \in Deadlines :
       /\ \A d \in Deadlines : t <= d
       /\ t > now /\ t <= MaxTime
       /\ now' = t
  /\ UNCHANGED <<locks, users, sessions, pc, op, lk, loc, result, ran, wrote>>

NextHandoff ==
  \/ \E p \in Procs : StartHolder(p)
  \/ \E p \in Procs : StartHandoffContender(p)
  \/ \E p \in Procs : AcquireTry(p)
  \/ \E p \in Procs : AcquireReap(p)
  \/ \E p \in Procs : AcquireWake(p)
  \/ \E p \in Procs : HoldOver(p)
  \/ \E p \in Procs : Release(p)
  \/ TickToDeadline

\* every pending call is served and the clock keeps running
SpecHandoff == InitLock /\ [][NextHandoff]_vars /\ WF_vars(NextHandoff)

(* isLockHeld(lockKey) next to callers of withLock.  The table starts with *)
(* the record of a holder that died and whose expiresAt is about to pass.  *)

\* findUnique({ where: { lockKey } })
FindLock(key) == { r \in locks : r.lockKey = key }

\* prisma.distributedLock.delete({ where: { lockKey } })
IsLockHeldDeleteRows(key) ==
  { r \in locks : r.lockKey = key }

StartIsLockHeld(p) ==
  /\ CanStart(p)
  /\ \E key \in LockKeys : op' = [op EXCEPT ![p] = [name |-> "isLockHeld", key |-> key]]
  /\ pc' = [pc EXCEPT ![p] = "ilhFind"]
  /\ UNCHANGED <<now, locks, users, sessions, lk, loc, result, ran, wrote>>

\* findUnique, then `if (!lock) return false` and the test
\* `lock.expiresAt < new Date()`: return true, or go on to the delete
IsLockHeldFind(p) ==
  /\ pc[p] = "ilhFind"
  /\ IF FindLock(op[p].key) = {}
       THEN /\ result' = [result EXCEPT ![p] = Returned(FALSE)]
            /\ pc' = [pc EXCEPT ![p] = "done"]
            /\ UNCHANGED loc
       ELSE \E lock \in FindLock(op[p].key) :
              IF lock.expiresAt < now
                THEN /\ pc' = [pc EXCEPT ![p] = "ilhDel"]
                     /\ loc' = [loc EXCEPT ![p] = [lock |-> lock]]
                     /\ UNCHANGED result
                ELSE /\ result' = [result EXCEPT ![p] = Returned(TRUE)]
                     /\ pc' = [pc EXCEPT ![p] = "done"]
                     /\ UNCHANGED loc
  /\ UNCHANGED <<now, locks, users, sessions, op, lk, ran, wrote>>

\* the delete by lockKey, then `return false`; a delete that finds no record
\* throws P2025, which the catch block turns into `return false` as well
IsLockHeldDelete(p) ==
  /\ pc[p] = "ilhDel"
  /\ locks' = locks \ IsLockHeldDeleteRows(op[p].key)
  /\ loc' = [loc EXCEPT ![p] = [lock |-> loc[p].lock,
                                deleted |-> IsLockHeldDeleteRows(op[p].key)]]
  /\ result' = [result EXCEPT ![p] = Returned(FALSE)]
  /\ pc' = [pc EXCEPT ![p] = "done"]
  /\ UNCHANGED <<now, users, sessions, op, lk, ran, wrote>>

InitLockHeld ==
  /\ now = 0
  /\ locks = { LockRow(key, <<0, 1>>, 0) : key \in LockKeys }
  /\ users = {}
  /\ sessions = {}
  /\ pc = [p \in Procs |-> "idle"]
  /\ op = [p \in Procs |-> [name |-> "none"]]
  /\ lk = [p \in Procs |-> <<>>]
  /\ loc = [p \in Procs |-> NoRow]
  /\ result = [p \in Procs |-> NoResult]
  /\ ran = [p \in Procs |-> {}]
  /\ wrote = [p \in Procs |-> FALSE]

NextLockHeld ==
  \/ \E p \in Procs : StartWithLock(p)
  \/ \E p \in Procs : StartIsLockHeld(p)
  \/ \E p \in Procs : IsLockHeldFind(p)
  \/ \E p \in Procs : IsLockHeldDelete(p)
  \/ \E p \in Procs : AcquireTry(p)
  \/ \E p \in Procs : AcquireReap(p)
  \/ \E p \in Procs : AcquireWake(p)
  \/ \E p \in Procs : FnExit(p)
  \/ \E p \in Procs : RenewLock(p)
  \/ \E p \in Procs : Release(p)
  \/ CleanupExpiredLocks
  \/ Tick

SpecLockHeld == InitLockHeld /\ [][NextLockHeld]_vars

----------------------------------------------------------------------------
(* User service.  users(id PRIMARY KEY, privy_id UNIQUE, wallet_address    *)
(* UNIQUE, ..., version).  Prisma's interactive transaction runs at the    *)
(* database default isolation (read committed): a row read inside it can   *)
(* be changed by another request before the transaction writes.            *)

USER_LOCK_TIMEOUT       == 50
CREATE_USER_RETRIES     == 3
UPDATE_USER_RETRIES     == 2
REGISTER_WALLET_RETRIES == 3

UserRow(id, privyId, wallet, name, version) ==
  [id |-> id, privyId |-> privyId, walletAddress |-> wallet,
   displayName |-> name, status |-> "active", version |-> version]

getUserLockKey(userId) == <<"user", userId>>

\* a wallet key drawn from the namespace of the user keys
getWalletLockKeyAsUser(walletAddress) == <<"user", walletAddress>>

\* `wallet:${walletAddress}`
getWalletLockKey(walletAddress) == <<"wallet", walletAddress>>

P2002(target) == [code |-> "P2002", target |-> target, message |-> "Unique constraint failed"]
P2025 == [code |-> "P2025", target |-> Null, message |-> "Record to update not found"]

ConflictMessage == "User has been modified by another request. Please retry."

FindUserById(id)        == { u \in users : u.id = id }
FindUserByPrivyId(pid)  == { u \in users : u.privyId = pid }
FindUserByWallet(w)     == { u \in users : u.walletAddress = w }

\* fn of the request is over with this outcome: on to the finally block
FnDone(p, outcome) ==
  /\ loc' = [loc EXCEPT ![p] = [out |-> outcome]]
  /\ pc' = [pc EXCEPT ![p] = "rel"]

\* ---- createUser(input)

StartCreateUser(p) ==
  /\ CanStart(p)
  /\ \E privyId \in NewPrivyIds, wallet \in {Null} :
       /\ op' = [op EXCEPT ![p] = [name |-> "createUser", privyId |-> privyId,
                                   walletAddress |-> wallet]]
       /\ lk' = [lk EXCEPT ![p] = Append(@, NewFrame(p, getUserLockKey(privyId),
                    USER_LOCK_TIMEOUT, CREATE_USER_RETRIES, DEFAULT_RETRY_DELAY))]
  /\ pc' = [pc EXCEPT ![p] = "acq"]
  /\ UNCHANGED <<now, locks, users, sessions, loc, result, ran, wrote>>

\* findUnique({ where: { privyId } }) and the existence check
CreateUserCheck(p) ==
  /\ pc[p] = "fn"
  /\ op[p].name = "createUser"
  /\ IF FindUserByPrivyId(op[p].privyId) # {}
       THEN FnDone(p, Returned(Failure("User with this Privy ID already exists")))
       ELSE /\ pc' = [pc EXCEPT ![p] =
                        IF op[p].walletAddress # Null THEN "cWallet" ELSE "cWrite"]
            /\ UNCHANGED loc
  /\ UNCHANGED <<now, locks, users, sessions, op, lk, result, ran, wrote>>

\* findUnique({ where: { walletAddress } }) and the collision check
CreateUserWalletCheck(p) ==
  /\ pc[p] = "cWallet"
  /\ IF FindUserByWallet(op[p].walletAddress) # {}
       THEN FnDone(p, Returned(Failure("Wallet address already registered")))
       ELSE /\ pc' = [pc EXCEPT ![p] = "cWrite"]
            /\ UNCHANGED loc
  /\ UNCHANGED <<now, locks, users, sessions, op, lk, result, ran, wrote>>

\* a users table without the UNIQUE constraint on privy_id
PrivyIdTakenNever(privyId) == FALSE

\* privy_id VARCHAR(255) UNIQUE NOT NULL
PrivyIdTaken(privyId) == FindUserByPrivyId(privyId) # {}

\* a users table without the UNIQUE constraint on wallet_address
WalletTakenNever(wallet, id) == FALSE

\* wallet_address VARCHAR(42) UNIQUE: taken by a row other than `id`
WalletTaken(wallet, id) ==
  wallet # Null /\ \E u \in users : u.walletAddress = wallet /\ u.id # id

\* prisma.user.create: the unique constraints can still reject the insert
CreateUserWrite(p) ==
  /\ pc[p] = "cWrite"
  /\ LET id == NewUserId(p) IN
     IF PrivyIdTaken(op[p].privyId)
       THEN /\ FnDone(p, Thrown(P2002("privy_id")))
            /\ UNCHANGED <<users, wrote>>
     ELSE IF WalletTaken(op[p].walletAddress, id)
       THEN /\ FnDone(p, Thrown(P2002("wallet_address")))
            /\ UNCHANGED <<users, wrote>>
     ELSE LET row == UserRow(id, op[p].privyId, op[p].walletAddress, Null, 0) IN
            /\ users' = users \cup {row}
            /\ wrote' = [wrote EXCEPT ![p] = TRUE]
            /\ FnDone(p, Returned(Success(row)))
  /\ UNCHANGED <<now, locks, sessions, op, lk, result, ran>>

\* ---- updateUser(userId, input, currentVersion)

\* the request runs updateUser's body: called directly, or from
\* registerWallet's fn (second frame)
InUpdateUser(p) ==
  \/ op[p].name = "updateUser"
  \/ op[p].name = "registerWallet" /\ Len(lk[p]) = 2

StartUpdateUser(p) ==
  /\ CanStart(p)
  /\ \E userId \in UpdateTargets, v \in ExpectedVersions :
       /\ op' = [op EXCEPT ![p] = [name |-> "updateUser", userId |-> userId,
                                   input |-> [displayName |-> Names[p], walletAddress |-> Null],
                                   currentVersion |-> v,
                                   storedAtCall |-> { u.version : u \in FindUserById(userId) }]]
       /\ lk' = [lk EXCEPT ![p] = Append(@, NewFrame(p, getUserLockKey(userId),
                    USER_LOCK_TIMEOUT, UPDATE_USER_RETRIES, DEFAULT_RETRY_DELAY))]
  /\ pc' = [pc EXCEPT ![p] = "acq"]
  /\ UNCHANGED <<now, locks, users, sessions, loc, result, ran, wrote>>

\* an updateUser that never compares versions
VersionConflictNever(currentVersion, storedVersion) == FALSE

\* currentVersion !== undefined && currentUser.version !== currentVersion
VersionConflict(currentVersion, storedVersion) ==
  currentVersion # NoVersion /\ storedVersion # currentVersion

\* tx.user.findUnique({ where: { id } }), not-found and version checks
UpdateUserRead(p) ==
  /\ pc[p] = "fn"
  /\ InUpdateUser(p)
  /\ LET found == FindUserById(op[p].userId) IN
     IF found = {}
       THEN FnDone(p, Returned(Failure("User not found")))
     ELSE LET cur == CHOOSE u \in found : TRUE IN
       IF VersionConflict(op[p].currentVersion, cur.version)
         THEN /\ loc' = [loc EXCEPT ![p] = [out |-> Returned(Failure(ConflictMessage)),
                                            seen |-> cur.version]]
              /\ pc' = [pc EXCEPT ![p] = "rel"]
         ELSE /\ loc' = [loc EXCEPT ![p] = [cur |-> cur]]
              /\ pc' = [pc EXCEPT ![p] =
                          IF op[p].input.walletAddress # Null
                             /\ op[p].input.walletAddress # cur.walletAddress
                            THEN "uWallet" ELSE "uWrite"]
  /\ UNCHANGED <<now, locks, users, sessions, op, lk, result, ran, wrote>>

\* tx.user.findUnique({ where: { walletAddress } }) and the collision check
UpdateUserWalletCheck(p) ==
  /\ pc[p] = "uWallet"
  /\ IF \E u \in FindUserByWallet(op[p].input.walletAddress) : u.id # op[p].userId
       THEN FnDone(p, Returned(Failure("Wallet address already registered")))
       ELSE /\ pc' = [pc EXCEPT ![p] = "uWrite"]
            /\ UNCHANGED loc
  /\ UNCHANGED <<now, locks, users, sessions, op, lk, result, ran, wrote>>

\* an update that leaves the version column alone
UpdatedUserSameVersion(stored, input, cur) ==
  [stored EXCEPT
     !.displayName = IF input.displayName # Null THEN input.displayName ELSE @,
     !.walletAddress = IF input.walletAddress # Null THEN input.walletAddress ELSE @]

\* the row as tx.user.update({ where: { id }, data: { ...input,
\* version: currentUser.version + 1 } }) leaves it: the columns named in
\* input are overwritten, the version comes from the row read earlier
UpdatedUser(stored, input, cur) ==
  [stored EXCEPT
     !.displayName = IF input.displayName # Null THEN input.displayName ELSE @,
     !.walletAddress = IF input.walletAddress # Null THEN input.walletAddress ELSE @,
     !.version = cur.version + 1]

\* tx.user.update and the commit of the transaction
UpdateUserWrite(p) ==
  /\ pc[p] = "uWrite"
  /\ LET found == FindUserById(op[p].userId) IN
     IF found = {}
       THEN /\ FnDone(p, Thrown(P2025))
            /\ UNCHANGED <<users, wrote>>
     ELSE IF WalletTaken(op[p].input.walletAddress, op[p].userId)
       THEN /\ FnDone(p, Thrown(P2002("wallet_address")))
            /\ UNCHANGED <<users, wrote>>
     ELSE LET stored == CHOOSE u \in found : TRUE
              row == UpdatedUser(stored, op[p].input, loc[p].cur)
          IN /\ users' = (users \ {stored}) \cup {row}
             /\ wrote' = [wrote EXCEPT ![p] = TRUE]
             /\ FnDone(p, Returned(Success(row)))
  /\ UNCHANGED <<now, locks, sessions, op, lk, result, ran>>

\* ---- registerWallet(userId, walletAddress)

StartRegisterWallet(p) ==
  /\ CanStart(p)
  /\ \E userId \in UpdateTargets, wallet \in Wallets :
       /\ op' = [op EXCEPT ![p] = [name |-> "registerWallet", userId |-> userId,
                                   input |-> [displayName |-> Null, walletAddress |-> wallet],
                                   currentVersion |-> NoVersion,
                                   storedAtCall |-> { u.version : u \in FindUserById(userId) }]]
       /\ lk' = [lk EXCEPT ![p] = Append(@, NewFrame(p, getWalletLockKey(wallet),
                    USER_LOCK_TIMEOUT, REGISTER_WALLET_RETRIES, DEFAULT_RETRY_DELAY))]
  /\ pc' = [pc EXCEPT ![p] = "acq"]
  /\ UNCHANGED <<now, locks, users, sessions, loc, result, ran, wrote>>

\* findUnique({ where: { walletAddress } }); if free, updateUser(userId,
\* { walletAddress }) is called and starts its own acquireLock
RegisterWalletCheck(p) ==
  /\ pc[p] = "fn"
  /\ op[p].name = "registerWallet"
  /\ Len(lk[p]) = 1
  /\ IF FindUserByWallet(op[p].input.walletAddress) # {}
       THEN /\ FnDone(p, Returned(Failure("Wallet address already registered")))
            /\ UNCHANGED lk
       ELSE /\ lk' = [lk EXCEPT ![p] = Append(@, NewFrame(p, getUserLockKey(op[p].userId),
                         USER_LOCK_TIMEOUT, UPDATE_USER_RETRIES, DEFAULT_RETRY_DELAY))]
            /\ pc' = [pc EXCEPT ![p] = "acq"]
            /\ UNCHANGED loc
  /\ UNCHANGED <<now, locks, users, sessions, op, result, ran, wrote>>

\* ---- sessions(id PRIMARY KEY, user_id, device_id, is_active, ...,
\*      idempotency_key UNIQUE, created_at, expires_at, terminated_at,
\*      termination_reason)

NoTime == -1

\* a row as prisma.session.create leaves it: is_active defaults to true
SessionRow(id, userId, deviceId, idem, name, created, expires) ==
  [id |-> id, userId |-> userId, deviceId |-> deviceId, isActive |-> TRUE,
   terminatedAt |-> NoTime, terminationReason |-> Null, idempotencyKey |-> idem,
   deviceName |-> name, pushToken |-> Null, pushTokenUpdatedAt |-> NoTime,
   createdAt |-> created, expiresAt |-> expires]

\* a column assignment that overwrites even when nothing was supplied
KeepOrSetAlways(stored, supplied) == supplied

\* ...(input.x && { x: input.x }): the column is assigned only when the
\* input supplies a value
KeepOrSet(stored, supplied) == IF supplied # Null THEN supplied ELSE stored

\* ...(input.pushToken && { pushToken, pushTokenUpdatedAt: new Date() })
WithPushToken(row, token, at) ==
  [row EXCEPT !.pushToken = KeepOrSet(@, token),
              !.pushTokenUpdatedAt = IF token # Null THEN at ELSE @]

\* a termination that leaves the row active
TerminatedStillActive(s, reason) ==
  [s EXCEPT !.isActive = TRUE, !.terminatedAt = now, !.terminationReason = reason]

Terminated(s, reason) ==
  [s EXCEPT !.isActive = FALSE, !.terminatedAt = now, !.terminationReason = reason]

\* ---- deleteUser(userId)

StartDeleteUser(p) ==
  /\ CanStart(p)
  /\ \E userId \in UpdateTargets :
       /\ op' = [op EXCEPT ![p] = [name |-> "deleteUser", userId |-> userId]]
       /\ lk' = [lk EXCEPT ![p] = Append(@, NewFrame(p, getUserLockKey(userId),
                    USER_LOCK_TIMEOUT, DEFAULT_RETRIES, DEFAULT_RETRY_DELAY))]
  /\ pc' = [pc EXCEPT ![p] = "acq"]
  /\ UNCHANGED <<now, locks, users, sessions, loc, result, ran, wrote>>

\* prisma.user.update({ where: { id }, data: { status: 'deleted' } })
DeleteUserMark(p) ==
  /\ pc[p] = "fn"
  /\ op[p].name = "deleteUser"
  /\ LET found == FindUserById(op[p].userId) IN
     IF found = {}
       THEN /\ FnDone(p, Thrown(P2025))
            /\ UNCHANGED <<users, wrote>>
       ELSE /\ users' = { IF u \in found THEN [u EXCEPT !.status = "deleted"] ELSE u : u \in users }
            /\ wrote' = [wrote EXCEPT ![p] = TRUE]
            /\ pc' = [pc EXCEPT ![p] = "dSessions"]
            /\ loc' = [loc EXCEPT ![p] = [waiting |-> FALSE, snap |-> {}]]
  /\ UNCHANGED <<now, locks, sessions, op, lk, result, ran>>

\* the uncommitted row versions of the transaction of q (sessions only:
\* the transaction of updateUser commits in the step of its one write)
Pending(q) ==
  IF pc[q] \in {"sReact", "sTermOthers", "sTermAll", "sCreate", "sCommit"}
    THEN loc[q].pend ELSE {}

\* ids of the rows on which a transaction other than p's holds a row lock
RowLocked(p) == { r.id : r \in UNION { Pending(q) : q \in Procs \ {p} } }

\* the ids a write statement works on: those its snapshot matches, or, after
\* a wait for a row lock, those it matched before the wait
StmtTargets(p, matched) ==
  IF loc[p].waiting THEN loc[p].snap ELSE { s.id : s \in matched }

\* the statement meets a locked row: it starts to wait (once)
StmtWaits(p, ids) ==
  /\ ~ loc[p].waiting
  /\ loc' = [loc EXCEPT ![p].waiting = TRUE, ![p].snap = ids]
  /\ UNCHANGED pc

\* prisma.session.updateMany({ where: { userId, isActive: true }, data: {
\* isActive: false, terminatedAt: new Date(), terminationReason:
\* 'user_deleted' } })
DeleteUserSessions(p) ==
  /\ pc[p] = "dSessions"
  /\ LET ids == StmtTargets(p, { s \in sessions : s.userId = op[p].userId /\ s.isActive }) IN
     IF ids \cap RowLocked(p) # {}
       THEN /\ StmtWaits(p, ids)
            /\ UNCHANGED sessions
       ELSE LET hit == { s \in sessions : s.id \in ids /\ s.isActive } IN
            /\ sessions' = (sessions \ hit) \cup { Terminated(s, "user_deleted") : s \in hit }
            /\ FnDone(p, Returned(Success(NoRow)))
  /\ UNCHANGED <<now, locks, users, op, lk, result, ran, wrote>>

----------------------------------------------------------------------------
(* Requests to the user service, on a database holding one user who has    *)
(* one active session.                                                     *)

InitUser ==
  /\ InitTables
  /\ users = {UserRow("u1", "privy:u1", Null, Null, 0)}
  /\ sessions = {SessionRow("s0", "u1", "dev0", Null, Null, 0, SessionLifetime)}

NextUser ==
  \/ \E p \in Procs : StartCreateUser(p)
  \/ \E p \in Procs : StartUpdateUser(p)
  \/ \E p \in Procs : StartRegisterWallet(p)
  \/ \E p \in Procs : StartDeleteUser(p)
  \/ \E p \in Procs : AcquireTry(p)
  \/ \E p \in Procs : AcquireReap(p)
  \/ \E p \in Procs : AcquireWake(p)
  \/ \E p \in Procs : CreateUserCheck(p)
  \/ \E p \in Procs : CreateUserWrite(p)
  \/ \E p \in Procs : UpdateUserRead(p)
  \/ \E p \in Procs : UpdateUserWalletCheck(p)
  \/ \E p \in Procs : UpdateUserWrite(p)
  \/ \E p \in Procs : RegisterWalletCheck(p)
  \/ \E p \in Procs : DeleteUserMark(p)
  \/ \E p \in Procs : DeleteUserSessions(p)
  \/ \E p \in Procs : Release(p)
  \/ Tick

SpecUser == InitUser /\ [][NextUser]_vars

(* Requests that all create a user *)

NextCreateUser ==
  \/ \E p \in Procs : StartCreateUser(p)
  \/ \E p \in Procs : AcquireTry(p)
  \/ \E p \in Procs : AcquireReap(p)
  \/ \E p \in Procs : AcquireWake(p)
  \/ \E p \in Procs : CreateUserCheck(p)
  \/ \E p \in Procs : CreateUserWrite(p)
  \/ \E p \in Procs : Release(p)
  \/ Tick

SpecCreateUser == InitUser /\ [][NextCreateUser]_vars

(* Requests of different users that all present the same wallet address: *)
(* request p comes from the p-th user, who either signs up with the wallet *)
(* (createUser) or, being registered already, claims it (updateUser,       *)
(* registerWallet).                                                        *)

WalletUserId(p)  == <<"u1", "u2", "u3", "u4", "u5">>[p]
WalletPrivyId(p) == <<"privy:a", "privy:b", "privy:c", "privy:d", "privy:e">>[p]
StoredPrivyId(p) == <<"privy:u1", "privy:u2", "privy:u3", "privy:u4", "privy:u5">>[p]

StartCreateUserWithWallet(p) ==
  /\ CanStart(p)
  /\ \E wallet \in Wallets :
       /\ op' = [op EXCEPT ![p] = [name |-> "createUser", privyId |-> WalletPrivyId(p),
                                   walletAddress |-> wallet]]
       /\ lk' = [lk EXCEPT ![p] = Append(@, NewFrame(p, getUserLockKey(WalletPrivyId(p)),
                    USER_LOCK_TIMEOUT, CREATE_USER_RETRIES, DEFAULT_RETRY_DELAY))]
  /\ pc' = [pc EXCEPT ![p] = "acq"]
  /\ UNCHANGED <<now, locks, users, sessions, loc, result, ran, wrote>>

StartUpdateUserWallet(p) ==
  /\ CanStart(p)
  /\ \E wallet \in Wallets :
       /\ op' = [op EXCEPT ![p] = [name |-> "updateUser", userId |-> WalletUserId(p),
                                   input |-> [displayName |-> Null, walletAddress |-> wallet],
                                   currentVersion |-> NoVersion,
                                   storedAtCall |-> { u.version : u \in FindUserById(WalletUserId(p)) }]]
       /\ lk' = [lk EXCEPT ![p] = Append(@, NewFrame(p, getUserLockKey(WalletUserId(p)),
                    USER_LOCK_TIMEOUT, UPDATE_USER_RETRIES, DEFAULT_RETRY_DELAY))]
  /\ pc' = [pc EXCEPT ![p] = "acq"]
  /\ UNCHANGED <<now, locks, users, sessions, loc, result, ran, wrote>>

StartRegisterWalletOf(p) ==
  /\ CanStart(p)
  /\ \E wallet \in Wallets :
       /\ op' = [op EXCEPT ![p] = [name |-> "registerWallet", userId |-> WalletUserId(p),
                                   input |-> [displayName |-> Null, walletAddress |-> wallet],
                                   currentVersion |-> NoVersion,
                                   storedAtCall |-> { u.version : u \in FindUserById(WalletUserId(p)) }]]
       /\ lk' = [lk EXCEPT ![p] = Append(@, NewFrame(p, getWalletLockKey(wallet),
                    USER_LOCK_TIMEOUT, REGISTER_WALLET_RETRIES, DEFAULT_RETRY_DELAY))]
  /\ pc' = [pc EXCEPT ![p] = "acq"]
  /\ UNCHANGED <<now, locks, users, sessions, loc, result, ran, wrote>>

InitWallet ==
  /\ InitTables
  /\ users = { UserRow(WalletUserId(p), StoredPrivyId(p), Null, Null, 0) : p \in Procs }
  /\ sessions = {}

NextWallet ==
  \/ \E p \in Procs : StartCreateUserWithWallet(p)
  \/ \E p \in Procs : StartUpdateUserWallet(p)
  \/ \E p \in Procs : StartRegisterWalletOf(p)
  \/ \E p \in Procs : AcquireTry(p)
  \/ \E p \in Procs : AcquireReap(p)
  \/ \E p \in Procs : AcquireWake(p)
  \/ \E p \in Procs : CreateUserCheck(p)
  \/ \E p \in Procs : CreateUserWalletCheck(p)
  \/ \E p \in Procs : CreateUserWrite(p)
  \/ \E p \in Procs : UpdateUserRead(p)
  \/ \E p \in Procs : UpdateUserWalletCheck(p)
  \/ \E p \in Procs : UpdateUserWrite(p)
  \/ \E p \in Procs : RegisterWalletCheck(p)
  \/ \E p \in Procs : Release(p)
  \/ Tick

SpecWallet == InitWallet /\ [][NextWallet]_vars

(* Requests that all update the stored user *)

NextUpdateUser ==
  \/ \E p \in Procs : StartUpdateUser(p)
  \/ \E p \in Procs : AcquireTry(p)
  \/ \E p \in Procs : AcquireReap(p)
  \/ \E p \in Procs : AcquireWake(p)
  \/ \E p \in Procs : UpdateUserRead(p)
  \/ \E p \in Procs : UpdateUserWrite(p)
  \/ \E p \in Procs : Release(p)
  \/ Tick

SpecUpdateUser == InitUser /\ [][NextUpdateUser]_vars

(* updateUser called once at a time with every kind of patch: on a stored  *)
(* row or on an id with no row, with or without an expected version, with  *)
(* or without a wallet address (free, its own, or another user's).         *)

PatchTargets == {"u1", "u2", "u9"}
PatchWallets == {Null, "0xw1", "0xw2"}

StartUpdateUserPatch(p) ==
  /\ CanStart(p)
  /\ \A q \in Procs : pc[q] \in {"idle", "done"}
  /\ \E userId \in PatchTargets, v \in ExpectedVersions, wallet \in PatchWallets,
        name \in {Null, Names[p]} :
       /\ op' = [op EXCEPT ![p] = [name |-> "updateUser", userId |-> userId,
                                   input |-> [displayName |-> name, walletAddress |-> wallet],
                                   currentVersion |-> v,
                                   storedAtCall |-> { u.version : u \in FindUserById(userId) }]]
       /\ lk' = [lk EXCEPT ![p] = Append(@, NewFrame(p, getUserLockKey(userId),
                    USER_LOCK_TIMEOUT, UPDATE_USER_RETRIES, DEFAULT_RETRY_DELAY))]
  /\ pc' = [pc EXCEPT ![p] = "acq"]
  /\ UNCHANGED <<now, locks, users, sessions, loc, result, ran, wrote>>

InitPatch ==
  /\ InitTables
  /\ users = { UserRow("u1", "privy:u1", Null, Null, 0),
               UserRow("u2", "privy:u2", "0xw1", Null, 0) }
  /\ sessions = {}

NextPatch ==
  \/ \E p \in Procs : StartUpdateUserPatch(p)
  \/ \E p \in Procs : AcquireTry(p)
  \/ \E p \in Procs : UpdateUserRead(p)
  \/ \E p \in Procs : UpdateUserWalletCheck(p)
  \/ \E p \in Procs : UpdateUserWrite(p)
  \/ \E p \in Procs : Release(p)
  \/ Tick

SpecPatch == InitPatch /\ [][NextPatch]_vars

(* PUT /api/v1/users/:id: the handler calls updateUser with the body's     *)
(* fields and version and maps the response to a status code.  Requests    *)
(* overlap, so a call can also fail to acquire its lock.                   *)

StartPutUser(p) ==
  /\ CanStart(p)
  /\ \E userId \in PatchTargets, v \in ExpectedVersions, wallet \in PatchWallets :
       /\ op' = [op EXCEPT ![p] = [name |-> "updateUser", userId |-> userId,
                                   input |-> [displayName |-> Names[p], walletAddress |-> wallet],
                                   currentVersion |-> v,
                                   storedAtCall |-> { u.version : u \in FindUserById(userId) }]]
       /\ lk' = [lk EXCEPT ![p] = Append(@, NewFrame(p, getUserLockKey(userId),
                    USER_LOCK_TIMEOUT, UPDATE_USER_RETRIES, DEFAULT_RETRY_DELAY))]
  /\ pc' = [pc EXCEPT ![p] = "acq"]
  /\ UNCHANGED <<now, locks, users, sessions, loc, result, ran, wrote>>

\* result.error?.includes('modified by another request'): of the messages
\* updateUser returns, the version-conflict message is the one that does
IncludesModifiedByAnotherRequest(error) == error = ConflictMessage

\* the status code of the response
PutUserStatus(res) ==
  IF res.kind = "throw" THEN 500
  ELSE IF res.val.success THEN 200
  ELSE IF IncludesModifiedByAnotherRequest(res.val.error) THEN 409
  ELSE 404

\* the handler answers once updateUser has returned
PutUserRespond(p) ==
  /\ pc[p] = "done"
  /\ op[p].name = "updateUser"
  /\ pc' = [pc EXCEPT ![p] = "replied"]
  /\ loc' = [loc EXCEPT ![p] = [status |-> PutUserStatus(result[p])]]
  /\ UNCHANGED <<now, locks, users, sessions, op, lk, result, ran, wrote>>

NextPutUser ==
  \/ \E p \in Procs : StartPutUser(p)
  \/ \E p \in Procs : AcquireTry(p)
  \/ \E p \in Procs : AcquireReap(p)
  \/ \E p \in Procs : AcquireWake(p)
  \/ \E p \in Procs : UpdateUserRead(p)
  \/ \E p \in Procs : UpdateUserWalletCheck(p)
  \/ \E p \in Procs : UpdateUserWrite(p)
  \/ \E p \in Procs : Release(p)
  \/ \E p \in Procs : PutUserRespond(p)
  \/ Tick

SpecPutUser == InitPatch /\ [][NextPutUser]_vars

----------------------------------------------------------------------------
(* Session service.  getOrCreateSession runs one interactive transaction   *)
(* under the lock session:<userId>:<deviceId>.  The transaction runs at    *)
(* read committed: each statement sees the rows committed when it starts,  *)
(* its own writes stay invisible to others until the commit, and a write   *)
(* to a row on which another transaction holds an uncommitted write waits  *)
(* for that transaction and then looks again at the rows it had matched.   *)
(* A pair of transactions that wait for each other is not resolved here:   *)
(* both stay where they are.                                               *)

SESSION_LOCK_TIMEOUT == 50
SESSION_LOCK_RETRIES == 3

SessionUsers     == {"u1"}
Devices          == {"dev0", "dev1", "dev2"}
IdemKeys         == {Null, "k1"}
DeviceNameInputs == {Null, "phone"}
PushTokenInputs  == {Null, "tok1"}

\* gen_random_uuid() of the session row inserted by request p
NewSessionId(p) == <<"sess-a", "sess-b", "sess-c", "sess-d", "sess-e">>[p]

getSessionLockKey(userId, deviceId) == <<"session", userId, deviceId>>

StartGetOrCreateSession(p) ==
  /\ CanStart(p)
  /\ \E userId \in SessionUsers, deviceId \in Devices, idem \in IdemKeys,
        name \in DeviceNameInputs :
       /\ op' = [op EXCEPT ![p] = [name |-> "getOrCreateSession", userId |-> userId,
                                   deviceId |-> deviceId, idempotencyKey |-> idem,
                                   deviceName |-> name, pushToken |-> Null]]
       /\ lk' = [lk EXCEPT ![p] = Append(@, NewFrame(p, getSessionLockKey(userId, deviceId),
                    SESSION_LOCK_TIMEOUT, SESSION_LOCK_RETRIES, DEFAULT_RETRY_DELAY))]
  /\ pc' = [pc EXCEPT ![p] = "acq"]
  /\ UNCHANGED <<now, locks, users, sessions, loc, result, ran, wrote>>

\* locals of the transaction callback: the row findFirst returned, the
\* uncommitted writes, the row to return, and the rows a waiting statement
\* had matched
TxLocals(existing) ==
  [existing |-> existing, pend |-> {}, ret |-> NoRow, waiting |-> FALSE, snap |-> {}]

\* session.findMany (logged only), then session.findFirst({ where: { userId,
\* deviceId }, orderBy: { createdAt: 'desc' } })
SessionFind(p) ==
  /\ pc[p] = "fn"
  /\ op[p].name = "getOrCreateSession"
  /\ LET found == { s \in sessions : s.userId = op[p].userId /\ s.deviceId = op[p].deviceId }
     IN IF found = {}
          THEN /\ loc' = [loc EXCEPT ![p] = TxLocals(NoRow)]
               /\ pc' = [pc EXCEPT ![p] = "sTermAll"]
          ELSE \E e \in { s \in found : \A t \in found : t.createdAt <= s.createdAt } :
                 /\ loc' = [loc EXCEPT ![p] = TxLocals(e)]
                 /\ pc' = [pc EXCEPT ![p] = "sReact"]
  /\ UNCHANGED <<now, locks, users, sessions, op, lk, result, ran, wrote>>

\* a reactivation that leaves terminatedAt and terminationReason as they were
ReactivatedStillTerminated(s, input) ==
  WithPushToken(
    [s EXCEPT !.isActive = TRUE, !.expiresAt = now + SessionLifetime,
              !.deviceName = KeepOrSet(@, input.deviceName)],
    input.pushToken, now)

\* data of the reactivating update: columns the input does not supply stay
Reactivated(s, input) ==
  WithPushToken(
    [s EXCEPT !.isActive = TRUE, !.terminatedAt = NoTime, !.terminationReason = Null,
              !.expiresAt = now + SessionLifetime,
              !.deviceName = KeepOrSet(@, input.deviceName)],
    input.pushToken, now)

\* tx.session.update({ where: { id: existingSession.id }, data: { isActive:
\* true, terminatedAt: null, terminationReason: null, expiresAt, ... } })
SessionReactivate(p) ==
  /\ pc[p] = "sReact"
  /\ LET id == loc[p].existing.id IN
     IF id \in RowLocked(p)
       THEN StmtWaits(p, {id})
       ELSE LET cur == CHOOSE s \in sessions : s.id = id
                new == Reactivated(cur, op[p])
            IN /\ loc' = [loc EXCEPT ![p].pend = {new}, ![p].ret = new,
                                     ![p].waiting = FALSE, ![p].snap = {}]
               /\ pc' = [pc EXCEPT ![p] = "sTermOthers"]
  /\ UNCHANGED <<now, locks, users, sessions, op, lk, result, ran, wrote>>

\* tx.session.updateMany({ where: <matched>, data: { isActive: false,
\* terminatedAt: new Date(), terminationReason:
\* 'new_session_on_different_device' } }) inside the transaction
TerminateInTx(p, matched, next) ==
  LET ids == StmtTargets(p, matched) IN
    IF ids \cap RowLocked(p) # {}
      THEN StmtWaits(p, ids)
      ELSE LET hit == { s \in sessions : s.id \in ids /\ s.isActive } IN
           /\ loc' = [loc EXCEPT ![p].pend = @ \cup { Terminated(s, "new_session_on_different_device") : s \in hit },
                                 ![p].waiting = FALSE, ![p].snap = {}]
           /\ pc' = [pc EXCEPT ![p] = next]

\* reactivation branch: where { userId, isActive: true, NOT: { id } }
SessionTerminateOthers(p) ==
  /\ pc[p] = "sTermOthers"
  /\ TerminateInTx(p, { s \in sessions : s.userId = op[p].userId /\ s.isActive
                                         /\ s.id # loc[p].existing.id }, "sCommit")
  /\ UNCHANGED <<now, locks, users, sessions, op, lk, result, ran, wrote>>

\* creation branch: where { userId, isActive: true }
SessionTerminateAll(p) ==
  /\ pc[p] = "sTermAll"
  /\ TerminateInTx(p, { s \in sessions : s.userId = op[p].userId /\ s.isActive }, "sCreate")
  /\ UNCHANGED <<now, locks, users, sessions, op, lk, result, ran, wrote>>

\* CREATE UNIQUE INDEX unique_idempotency_key ON sessions(idempotency_key)
\* WHERE idempotency_key IS NOT NULL
IdempotencyKeyTaken(key) ==
  key # Null /\ \E s \in sessions : s.idempotencyKey = key

\* a failed transaction that keeps the writes it had made
RolledBackPartly(pend) ==
  { s \in sessions : s.id \notin { r.id : r \in pend } } \cup pend

\* the callback of prisma.$transaction threw: none of its writes is kept
RolledBack(pend) == sessions

\* tx.session.create: a key that is taken rejects the insert and the
\* transaction is rolled back; a key that another open transaction has
\* inserted makes the insert wait
SessionCreate(p) ==
  /\ pc[p] = "sCreate"
  /\ LET key == op[p].idempotencyKey IN
     IF IdempotencyKeyTaken(key)
       THEN /\ FnDone(p, Thrown(P2002("idempotency_key")))
            /\ sessions' = RolledBack(loc[p].pend)
       ELSE /\ UNCHANGED sessions
            /\ ~ (key # Null /\ \E q \in Procs \ {p} : \E r \in Pending(q) : r.idempotencyKey = key)
            /\ LET new == WithPushToken(
                             SessionRow(NewSessionId(p), op[p].userId, op[p].deviceId, key,
                                        op[p].deviceName, now, now + SessionLifetime),
                             op[p].pushToken, now)
               IN loc' = [loc EXCEPT ![p].pend = @ \cup {new}, ![p].ret = new]
            /\ pc' = [pc EXCEPT ![p] = "sCommit"]
  /\ UNCHANGED <<now, locks, users, op, lk, result, ran, wrote>>

\* the table after the commit of the row versions in pend
Committed(pend) ==
  { s \in sessions : s.id \notin { r.id : r \in pend } } \cup pend

\* the callback returned: the transaction commits
SessionCommit(p) ==
  /\ pc[p] = "sCommit"
  /\ sessions' = Committed(loc[p].pend)
  /\ wrote' = [wrote EXCEPT ![p] = TRUE]
  /\ FnDone(p, Returned(Success(loc[p].ret)))
  /\ UNCHANGED <<now, locks, users, op, lk, result, ran>>

\* ---- terminateSession(sessionId, reason): one update by id, no lock

TerminateReasons == {"user_logout"}

TerminateSession(p) ==
  /\ CanStart(p)
  /\ \E s \in sessions, reason \in TerminateReasons :
       /\ s.id \notin RowLocked(p)
       /\ op' = [op EXCEPT ![p] = [name |-> "terminateSession", sessionId |-> s.id]]
       /\ sessions' = (sessions \ {s}) \cup {Terminated(s, reason)}
       /\ result' = [result EXCEPT ![p] = Returned(Success(NoRow))]
  /\ pc' = [pc EXCEPT ![p] = "done"]
  /\ wrote' = [wrote EXCEPT ![p] = TRUE]
  /\ UNCHANGED <<now, locks, users, lk, loc, ran>>

\* ---- terminateAllUserSessions(userId, reason): findMany, then updateMany

StartTerminateAll(p) ==
  /\ CanStart(p)
  /\ \E userId \in SessionUsers :
       /\ op' = [op EXCEPT ![p] = [name |-> "terminateAllUserSessions", userId |-> userId]]
       /\ loc' = [loc EXCEPT ![p] =
                    [sessionIds |-> { s.id : s \in { t \in sessions : t.userId = userId /\ t.isActive } },
                     waiting |-> FALSE, snap |-> {}]]
  /\ pc' = [pc EXCEPT ![p] = "taUpd"]
  /\ UNCHANGED <<now, locks, users, sessions, lk, result, ran, wrote>>

TerminateAllUpdate(p) ==
  /\ pc[p] = "taUpd"
  /\ LET ids == StmtTargets(p, { s \in sessions : s.userId = op[p].userId /\ s.isActive }) IN
     IF ids \cap RowLocked(p) # {}
       THEN /\ StmtWaits(p, ids)
            /\ UNCHANGED <<sessions, result, wrote>>
       ELSE LET hit == { s \in sessions : s.id \in ids /\ s.isActive } IN
            /\ sessions' = (sessions \ hit) \cup { Terminated(s, "user_logout_all") : s \in hit }
            /\ result' = [result EXCEPT ![p] =
                 Returned(Success([count |-> Cardinality(hit), sessionIds |-> loc[p].sessionIds]))]
            /\ wrote' = [wrote EXCEPT ![p] = TRUE]
            /\ pc' = [pc EXCEPT ![p] = "done"]
            /\ loc' = [loc EXCEPT ![p] = NoRow]
  /\ UNCHANGED <<now, locks, users, op, lk, ran>>

\* ---- cleanupExpiredSessions(), run every 10 minutes by config/prisma.ts

CleanupExpiredSessions ==
  LET hit == { s \in sessions : s.isActive /\ s.expiresAt < now } IN
    /\ hit # {}
    /\ { s.id : s \in hit } \cap RowLocked(0) = {}
    /\ sessions' = (sessions \ hit) \cup { Terminated(s, "expired") : s \in hit }
    /\ UNCHANGED <<now, locks, users, pc, op, lk, loc, result, ran, wrote>>

----------------------------------------------------------------------------
(* Requests to the session service, on a database holding one user whose   *)
(* one session, on device dev0, is active and about to expire.             *)

InitSession ==
  /\ InitTables
  /\ users = {UserRow("u1", "privy:u1", Null, Null, 0)}
  /\ sessions = {SessionRow("s0", "u1", "dev0", Null, "old", 3 - SessionLifetime, 3)}

NextSession ==
  \/ \E p \in Procs : StartGetOrCreateSession(p)
  \/ \E p \in Procs : AcquireTry(p)
  \/ \E p \in Procs : AcquireReap(p)
  \/ \E p \in Procs : AcquireWake(p)
  \/ \E p \in Procs : SessionFind(p)
  \/ \E p \in Procs : SessionReactivate(p)
  \/ \E p \in Procs : SessionTerminateOthers(p)
  \/ \E p \in Procs : SessionTerminateAll(p)
  \/ \E p \in Procs : SessionCreate(p)
  \/ \E p \in Procs : SessionCommit(p)
  \/ \E p \in Procs : Release(p)
  \/ \E p \in Procs : TerminateSession(p)
  \/ \E p \in Procs : StartTerminateAll(p)
  \/ \E p \in Procs : TerminateAllUpdate(p)
  \/ CleanupExpiredSessions
  \/ Tick

SpecSession == InitSession /\ [][NextSession]_vars

(* A client that calls getOrCreateSession again only after its previous  *)
(* call has returned.  No two calls overlap, so every insert of a lock     *)
(* record succeeds on its first attempt.                                   *)

StartNextSessionCall(p) ==
  /\ \A q \in Procs : pc[q] \in {"idle", "done"}
  /\ StartGetOrCreateSession(p)

NextSessionSeq ==
  \/ \E p \in Procs : StartNextSessionCall(p)
  \/ \E p \in Procs : AcquireTry(p)
  \/ \E p \in Procs : SessionFind(p)
  \/ \E p \in Procs : SessionReactivate(p)
  \/ \E p \in Procs : SessionTerminateOthers(p)
  \/ \E p \in Procs : SessionTerminateAll(p)
  \/ \E p \in Procs : SessionCreate(p)
  \/ \E p \in Procs : SessionCommit(p)
  \/ \E p \in Procs : Release(p)
  \/ CleanupExpiredSessions
  \/ Tick

SpecSessionSeq == InitSession /\ [][NextSessionSeq]_vars

(* The termination operations and the expiry sweep, next to calls of       *)
(* getOrCreateSession that follow one another and supply the rows.         *)

NextTermination ==
  \/ \E p \in Procs : StartNextSessionCall(p)
  \/ \E p \in Procs : AcquireTry(p)
  \/ \E p \in Procs : SessionFind(p)
  \/ \E p \in Procs : SessionReactivate(p)
  \/ \E p \in Procs : SessionTerminateOthers(p)
  \/ \E p \in Procs : SessionTerminateAll(p)
  \/ \E p \in Procs : SessionCreate(p)
  \/ \E p \in Procs : SessionCommit(p)
  \/ \E p \in Procs : Release(p)
  \/ \E p \in Procs : TerminateSession(p)
  \/ \E p \in Procs : StartTerminateAll(p)
  \/ \E p \in Procs : TerminateAllUpdate(p)
  \/ CleanupExpiredSessions
  \/ Tick

SpecTermination == InitSession /\ [][NextTermination]_vars

(* One getOrCreateSession and one terminateAllUserSessions for the same    *)
(* user that overlap: the second starts while the first is in flight.      *)

StartRacingSession(p) ==
  /\ \A q \in Procs \ {p} : pc[q] \in {"idle", "taUpd"}
  /\ StartGetOrCreateSession(p)

StartRacingLogout(p) ==
  /\ \A q \in Procs \ {p} :
       \/ pc[q] = "idle"
       \/ pc[q] # "done" /\ op[q].name = "getOrCreateSession"
  /\ StartTerminateAll(p)

NextLogoutRace ==
  \/ \E p \in Procs : StartRacingSession(p)
  \/ \E p \in Procs : StartRacingLogout(p)
  \/ \E p \in Procs : AcquireTry(p)
  \/ \E p \in Procs : SessionFind(p)
  \/ \E p \in Procs : SessionReactivate(p)
  \/ \E p \in Procs : SessionTerminateOthers(p)
  \/ \E p \in Procs : SessionTerminateAll(p)
  \/ \E p \in Procs : SessionCreate(p)
  \/ \E p \in Procs : SessionCommit(p)
  \/ \E p \in Procs : Release(p)
  \/ \E p \in Procs : TerminateAllUpdate(p)
  \/ Tick

SpecLogoutRace == InitSession /\ [][NextLogoutRace]_vars

(* The operations outside the reconciliation and termination code that    *)
(* write the sessions table: loginWithPrivy, logout, updateSession,        *)
(* extendSession and deleteUser.                                           *)

\* new Date(Date.now() + 7 * 24 * 60 * 60 * 1000), in units of 100 ms
LOGIN_SESSION_LIFETIME == 7 * 24 * 60 * 60 * 10

\* `${user.id}-${deviceId}-${Date.now()}` of the login made by request p
LoginIdempotencyKey(p) == <<"login-a", "login-b", "login-c", "login-d", "login-e">>[p]

\* steps 1 and 2 of loginWithPrivy: the token is valid and the user exists
StartLoginWithPrivy(p) ==
  /\ CanStart(p)
  /\ \E userId \in SessionUsers, deviceId \in Devices, name \in DeviceNameInputs :
       op' = [op EXCEPT ![p] = [name |-> "loginWithPrivy", userId |-> userId,
                                deviceId |-> deviceId, deviceName |-> name,
                                pushToken |-> Null]]
  /\ pc' = [pc EXCEPT ![p] = "lgFind"]
  /\ UNCHANGED <<now, locks, users, sessions, lk, loc, result, ran, wrote>>

\* prisma.session.findFirst({ where: { userId, deviceId, isActive: true } })
LoginFindSession(p) ==
  /\ pc[p] = "lgFind"
  /\ LET found == { s \in sessions : /\ s.userId = op[p].userId
                                      /\ s.deviceId = op[p].deviceId
                                      /\ s.isActive }
     IN IF found = {}
          THEN loc' = [loc EXCEPT ![p] = [existing |-> NoRow]]
          ELSE \E e \in found : loc' = [loc EXCEPT ![p] = [existing |-> e]]
  /\ pc' = [pc EXCEPT ![p] = "lgWrite"]
  /\ UNCHANGED <<now, locks, users, sessions, op, lk, result, ran, wrote>>

\* the row as the update of loginWithPrivy leaves it: the values it falls
\* back to are those of the row read by findFirst
LoginUpdated(stored, existing, input) ==
  [stored EXCEPT
     !.pushToken = KeepOrSet(existing.pushToken, input.pushToken),
     !.pushTokenUpdatedAt = IF input.pushToken # Null THEN now ELSE existing.pushTokenUpdatedAt,
     !.deviceName = KeepOrSet(existing.deviceName, input.deviceName),
     !.expiresAt = now + LOGIN_SESSION_LIFETIME]

\* the row as prisma.session.create of loginWithPrivy inserts it
LoginCreated(p) ==
  [WithPushToken(SessionRow(NewSessionId(p), op[p].userId, op[p].deviceId,
                            LoginIdempotencyKey(p),
                            KeepOrSet("Unknown Device", op[p].deviceName),
                            now, now + LOGIN_SESSION_LIFETIME),
                 op[p].pushToken, now)
     EXCEPT !.isActive = TRUE]

\* prisma.session.update on the row found, or prisma.session.create; an
\* error is logged and the login continues without a session
LoginWriteSession(p) ==
  /\ pc[p] = "lgWrite"
  /\ IF loc[p].existing # NoRow
       THEN /\ loc[p].existing.id \notin RowLocked(p)
            /\ LET cur == CHOOSE s \in sessions : s.id = loc[p].existing.id
                   new == LoginUpdated(cur, loc[p].existing, op[p])
               IN /\ sessions' = (sessions \ {cur}) \cup {new}
                  /\ result' = [result EXCEPT ![p] = Returned(Success(new))]
       ELSE /\ sessions' = sessions \cup {LoginCreated(p)}
            /\ result' = [result EXCEPT ![p] = Returned(Success(LoginCreated(p)))]
  /\ wrote' = [wrote EXCEPT ![p] = TRUE]
  /\ pc' = [pc EXCEPT ![p] = "done"]
  /\ loc' = [loc EXCEPT ![p] = NoRow]
  /\ UNCHANGED <<now, locks, users, op, lk, ran>>

\* logout(userId, sessionId): prisma.session.update({ where: { id } })
Logout(p) ==
  /\ CanStart(p)
  /\ \E s \in sessions :
       /\ s.id \notin RowLocked(p)
       /\ op' = [op EXCEPT ![p] = [name |-> "logout", userId |-> s.userId,
                                   sessionId |-> s.id]]
       /\ sessions' = (sessions \ {s}) \cup {Terminated(s, "user_logout")}
  /\ result' = [result EXCEPT ![p] = Returned(Success(NoRow))]
  /\ pc' = [pc EXCEPT ![p] = "done"]
  /\ wrote' = [wrote EXCEPT ![p] = TRUE]
  /\ UNCHANGED <<now, locks, users, lk, loc, ran>>

\* updateSession(sessionId, input): one update with { ...input }
UpdateSession(p) ==
  /\ CanStart(p)
  /\ \E s \in sessions, name \in DeviceNameInputs, token \in PushTokenInputs :
       /\ s.id \notin RowLocked(p)
       /\ op' = [op EXCEPT ![p] = [name |-> "updateSession", sessionId |-> s.id,
                                   deviceName |-> name, pushToken |-> token]]
       /\ LET new == WithPushToken([s EXCEPT !.deviceName = KeepOrSet(@, name)], token, now)
          IN /\ sessions' = (sessions \ {s}) \cup {new}
             /\ result' = [result EXCEPT ![p] = Returned(Success(new))]
  /\ pc' = [pc EXCEPT ![p] = "done"]
  /\ wrote' = [wrote EXCEPT ![p] = TRUE]
  /\ UNCHANGED <<now, locks, users, lk, loc, ran>>

\* extendSession(sessionId): findUnique({ where: { id } })
StartExtendSession(p) ==
  /\ CanStart(p)
  /\ \E s \in sessions :
       /\ op' = [op EXCEPT ![p] = [name |-> "extendSession", sessionId |-> s.id]]
       /\ loc' = [loc EXCEPT ![p] = [expiresAt |-> s.expiresAt]]
  /\ pc' = [pc EXCEPT ![p] = "exUpd"]
  /\ UNCHANGED <<now, locks, users, sessions, lk, result, ran, wrote>>

\* extendSession: update({ data: { expiresAt: newExpiresAt, lastActivityAt } })
\* with additionalDays = 30
ExtendSessionUpdate(p) ==
  /\ pc[p] = "exUpd"
  /\ op[p].sessionId \notin RowLocked(p)
  /\ LET cur == CHOOSE s \in sessions : s.id = op[p].sessionId
         new == [cur EXCEPT !.expiresAt = loc[p].expiresAt + SessionLifetime]
     IN /\ sessions' = (sessions \ {cur}) \cup {new}
        /\ result' = [result EXCEPT ![p] = Returned(Success(new))]
  /\ wrote' = [wrote EXCEPT ![p] = TRUE]
  /\ pc' = [pc EXCEPT ![p] = "done"]
  /\ loc' = [loc EXCEPT ![p] = NoRow]
  /\ UNCHANGED <<now, locks, users, op, lk, ran>>

NextOtherWriters ==
  \/ \E p \in Procs : StartLoginWithPrivy(p)
  \/ \E p \in Procs : LoginFindSession(p)
  \/ \E p \in Procs : LoginWriteSession(p)
  \/ \E p \in Procs : Logout(p)
  \/ \E p \in Procs : UpdateSession(p)
  \/ \E p \in Procs : StartExtendSession(p)
  \/ \E p \in Procs : ExtendSessionUpdate(p)
  \/ \E p \in Procs : StartDeleteUser(p)
  \/ \E p \in Procs : AcquireTry(p)
  \/ \E p \in Procs : AcquireReap(p)
  \/ \E p \in Procs : AcquireWake(p)
  \/ \E p \in Procs : DeleteUserMark(p)
  \/ \E p \in Procs : DeleteUserSessions(p)
  \/ \E p \in Procs : Release(p)
  \/ Tick

SpecOtherWriters == InitSession /\ [][NextOtherWriters]_vars

(* Calls of getOrCreateSession that follow one another on a device whose   *)
(* row carries a device name and a push token, each supplying or omitting  *)
(* either of them.                                                         *)

StartReactivationCall(p) ==
  /\ CanStart(p)
  /\ \A q \in Procs : pc[q] \in {"idle", "done"}
  /\ \E userId \in SessionUsers, deviceId \in Devices,
        name \in DeviceNameInputs, token \in PushTokenInputs :
       /\ op' = [op EXCEPT ![p] = [name |-> "getOrCreateSession", userId |-> userId,
                                   deviceId |-> deviceId, idempotencyKey |-> Null,
                                   deviceName |-> name, pushToken |-> token]]
       /\ lk' = [lk EXCEPT ![p] = Append(@, NewFrame(p, getSessionLockKey(userId, deviceId),
                    SESSION_LOCK_TIMEOUT, SESSION_LOCK_RETRIES, DEFAULT_RETRY_DELAY))]
  /\ pc' = [pc EXCEPT ![p] = "acq"]
  /\ UNCHANGED <<now, locks, users, sessions, loc, result, ran, wrote>>

InitReactivation ==
  /\ InitTables
  /\ users = {UserRow("u1", "privy:u1", Null, Null, 0)}
  /\ sessions = { WithPushToken(SessionRow("s0", "u1", "dev0", Null, "old",
                                           3 - SessionLifetime, 3), "tok0", 0) }

NextReactivation ==
  \/ \E p \in Procs : StartReactivationCall(p)
  \/ \E p \in Procs : AcquireTry(p)
  \/ \E p \in Procs : SessionFind(p)
  \/ \E p \in Procs : SessionReactivate(p)
  \/ \E p \in Procs : SessionTerminateOthers(p)
  \/ \E p \in Procs : SessionTerminateAll(p)
  \/ \E p \in Procs : SessionCreate(p)
  \/ \E p \in Procs : SessionCommit(p)
  \/ \E p \in Procs : Release(p)
  \/ Tick

SpecReactivation == InitReactivation /\ [][NextReactivation]_vars

(* getActiveSession(userId) next to getOrCreateSession and the periodic    *)
(* cleanup: one findFirst, and for an expired row one update by id.        *)

\* findFirst({ where: { userId, isActive: true } }), then `if (!session)`
\* and the test `session.expiresAt < new Date()`
StartGetActiveSession(p) ==
  /\ CanStart(p)
  /\ \E userId \in SessionUsers :
       LET found == { s \in sessions : s.userId = userId /\ s.isActive } IN
       /\ op' = [op EXCEPT ![p] = [name |-> "getActiveSession", userId |-> userId]]
       /\ IF found = {}
            THEN /\ result' = [result EXCEPT ![p] = Returned(Failure("No active session found"))]
                 /\ pc' = [pc EXCEPT ![p] = "done"]
                 /\ UNCHANGED loc
            ELSE \E session \in found :
                   IF session.expiresAt < now
                     THEN /\ pc' = [pc EXCEPT ![p] = "gaUpd"]
                          /\ loc' = [loc EXCEPT ![p] = [session |-> session]]
                          /\ UNCHANGED result
                     ELSE /\ result' = [result EXCEPT ![p] = Returned(Success(session))]
                          /\ pc' = [pc EXCEPT ![p] = "done"]
                          /\ UNCHANGED loc
  /\ UNCHANGED <<now, locks, users, sessions, lk, ran, wrote>>

\* prisma.session.update({ where: { id: session.id }, data: { isActive:
\* false, terminatedAt: new Date(), terminationReason: 'expired' } }); the
\* statement waits while a transaction holds the row
GetActiveSessionExpire(p) ==
  /\ pc[p] = "gaUpd"
  /\ loc[p].session.id \notin RowLocked(p)
  /\ LET cur == CHOOSE s \in sessions : s.id = loc[p].session.id IN
       sessions' = (sessions \ {cur}) \cup {Terminated(cur, "expired")}
  /\ result' = [result EXCEPT ![p] = Returned(Failure("Session expired"))]
  /\ wrote' = [wrote EXCEPT ![p] = TRUE]
  /\ pc' = [pc EXCEPT ![p] = "done"]
  /\ UNCHANGED <<now, locks, users, op, lk, loc, ran>>

\* a getOrCreateSession that overlaps getActiveSession calls only
StartSessionNextToReaders(p) ==
  /\ \A q \in Procs \ {p} : pc[q] \in {"idle", "done", "gaUpd"}
  /\ StartGetOrCreateSession(p)

NextActiveSession ==
  \/ \E p \in Procs : StartSessionNextToReaders(p)
  \/ \E p \in Procs : StartGetActiveSession(p)
  \/ \E p \in Procs : GetActiveSessionExpire(p)
  \/ \E p \in Procs : AcquireTry(p)
  \/ \E p \in Procs : SessionFind(p)
  \/ \E p \in Procs : SessionReactivate(p)
  \/ \E p \in Procs : SessionTerminateOthers(p)
  \/ \E p \in Procs : SessionTerminateAll(p)
  \/ \E p \in Procs : SessionCreate(p)
  \/ \E p \in Procs : SessionCommit(p)
  \/ \E p \in Procs : Release(p)
  \/ CleanupExpiredSessions
  \/ Tick

SpecActiveSession == InitSession /\ [][NextActiveSession]_vars

(* Every operation that writes isActive, terminatedAt or terminationReason *)
(* of a session row, on the database of InitSession.                       *)

NextSessionTable ==
  \/ NextActiveSession
  \/ \E p \in Procs : TerminateSession(p)
  \/ \E p \in Procs : StartTerminateAll(p)
  \/ \E p \in Procs : TerminateAllUpdate(p)
  \/ \E p \in Procs : StartLoginWithPrivy(p)
  \/ \E p \in Procs : LoginFindSession(p)
  \/ \E p \in Procs : LoginWriteSession(p)
  \/ \E p \in Procs : Logout(p)
  \/ \E p \in Procs : StartDeleteUser(p)
  \/ \E p \in Procs : AcquireReap(p)
  \/ \E p \in Procs : AcquireWake(p)
  \/ \E p \in Procs : DeleteUserMark(p)
  \/ \E p \in Procs : DeleteUserSessions(p)

SpecSessionTable == InitSession /\ [][NextSessionTable]_vars

(* Requests to all the operations that run under withLock *)

NextService ==
  \/ NextUser
  \/ \E p \in Procs : StartGetOrCreateSession(p)
  \/ \E p \in Procs : SessionFind(p)
  \/ \E p \in Procs : SessionReactivate(p)
  \/ \E p \in Procs : SessionTerminateOthers(p)
  \/ \E p \in Procs : SessionTerminateAll(p)
  \/ \E p \in Procs : SessionCreate(p)
  \/ \E p \in Procs : SessionCommit(p)

SpecService == InitUser /\ [][NextService]_vars

(* The same requests under a scheduler that leaves no pending database    *)
(* call or timer unserved for ever.                                        *)

\* setTimeout fires: the clock reaches the end of a pending sleep, also when
\* that instant lies after the last instant Tick advances to
SleepEnds ==
  /\ \E p \in Procs : pc[p] = "sleep" /\ Top(p).wake > now /\ now' = Top(p).wake
  /\ UNCHANGED <<locks, users, sessions, pc, op, lk, loc, result, ran, wrote>>

NextServiceFair ==
  \/ NextService
  \/ SleepEnds

SpecServiceFair == InitUser /\ [][NextServiceFair]_vars /\ WF_vars(NextServiceFair)

----------------------------------------------------------------------------
(* Properties of the lock manager *)

\* the acquireLock frames of p that have returned their owner token
Holding(p) ==
  { lk[p][i] : i \in { j \in 1..Len(lk[p]) :
                         j < Len(lk[p]) \/ pc[p] \notin {"acq", "reap", "sleep"} } }

RowOf(f) == { r \in locks : r.lockKey = f.key /\ r.lockOwner = f.owner }

\* p is between the invocation of fn and the end of the finally block
InCritical(p) == pc[p] \notin {"idle", "acq", "reap", "sleep", "done", "crashed"}

\* C1: at every instant a lock key has at most one live (non-expired) record,
\* and at most one caller holds a live record for it
C1_OneLiveRecordPerKey ==
  /\ \A r1, r2 \in locks :
       (r1.lockKey = r2.lockKey /\ Live(r1) /\ Live(r2)) => r1 = r2
  /\ \A p, q \in Procs : \A f \in Holding(p), g \in Holding(q) :
       (f.key = g.key /\ (\E r \in RowOf(f) : Live(r)) /\ (\E r \in RowOf(g) : Live(r)))
         => (p = q /\ f = g)

\* a caller holds a live record that it inserted after an earlier holder's
\* expired record was reaped
C1_Witness ==
  \E p, q \in Procs :
    /\ p # q
    /\ pc[p] \in {"fn", "crashed"} /\ pc[q] = "fn"
    /\ Top(p).key = Top(q).key
    /\ RowOf(Top(p)) = {}
    /\ \E r \in RowOf(Top(q)) : Live(r)

\* C2 as stated: the fn bodies of two withLock calls on one key never overlap
C2_NeverOverlap ==
  \A p, q \in Procs :
    (p # q /\ InCritical(p) /\ InCritical(q)) => Top(p).key # Top(q).key

\* C2 amended: two callers are inside fn on the same key only if the record
\* of one of them has expired and is no longer in the table; while a
\* holder's record is in the table nobody else is inside fn
C2_OverlapOnlyAfterExpiry ==
  \A p, q \in Procs :
    (p # q /\ InCritical(p) /\ InCritical(q) /\ Top(p).key = Top(q).key)
      => \E x \in {p, q} : RowOf(Top(x)) = {} /\ Top(x).expiresAt < now

\* a second caller runs fn while the first, whose record expired, still does
C2_Witness ==
  \E p, q \in Procs :
    /\ p # q /\ pc[p] = "fn" /\ pc[q] = "fn" /\ Top(p).key = Top(q).key
    /\ RowOf(Top(p)) = {} /\ RowOf(Top(q)) # {}

\* C9: once fn has run, withLock deletes the caller's record on every exit
\* path before it returns or rethrows, and it hands on exactly fn's outcome
C9_ReleasedOnEveryExit ==
  [][\A p \in Procs :
       (pc[p] = "rel" /\ pc'[p] = "done")
         => /\ ~ \E r \in locks' : r.lockKey = Top(p).key /\ r.lockOwner = Top(p).owner
            /\ op[p].name = "withLock" => result'[p] = loc[p].out]_vars

\* a withLock call is over whose fn threw: the exception came through
C9_Witness ==
  \E p \in Procs :
    /\ pc[p] = "done" /\ 1 \in ran[p] /\ op[p].name = "withLock"
    /\ result[p].kind = "throw" /\ result[p].val.message = "fn failed"

\* C8: a contender that finds the expired record of a holder that crashed
\* reaps it and goes on to insert its own record; it does not give up
C8_ReaperGoesOnToAcquire ==
  [][\A p \in Procs :
       (/\ pc[p] = "reap" /\ pc'[p] # "reap"
        /\ \E r \in ExpiredLockRows(Top(p).key, now) : pc[r.lockOwner[1]] = "crashed")
         => pc'[p] = "acq"]_vars

----------------------------------------------------------------------------
(* Properties of the user service *)

LockFailedMessage == "Failed to acquire lock"
PrivyIdExistsMessage == "User with this Privy ID already exists"

\* p called updateUser with an expectedVersion that differed from the version
\* stored at the moment of the call
StaleAtCall(p) ==
  /\ op[p].name = "updateUser"
  /\ op[p].currentVersion # NoVersion
  /\ op[p].storedAtCall # {}
  /\ op[p].currentVersion \notin op[p].storedAtCall

\* C5 as stated: an updateUser call whose expectedVersion differs from the
\* stored version always returns the conflict error and changes nothing
C5_StaleAlwaysConflicts ==
  \A p \in Procs :
    (pc[p] = "done" /\ StaleAtCall(p))
      => result[p] = Returned(Failure(ConflictMessage)) /\ ~ wrote[p]

\* C5 amended: an updateUser whose transaction reads a stored version that
\* differs from expectedVersion ends with the conflict error and leaves the
\* users table as it is; a call that was stale when made returns the conflict
\* error or, if it could not get the lock, the lock-acquisition error, and in
\* both cases has written nothing
C5_StaleReadConflicts ==
  [][\A p \in Procs :
       /\ (/\ pc[p] = "fn" /\ InUpdateUser(p) /\ pc'[p] # "fn"
           /\ op[p].currentVersion # NoVersion
           /\ \E u \in FindUserById(op[p].userId) : u.version # op[p].currentVersion)
            => /\ pc'[p] = "rel"
               /\ loc'[p].out = Returned(Failure(ConflictMessage))
               /\ users' = users
               /\ ~ wrote'[p]
       /\ (pc[p] # "done" /\ pc'[p] = "done" /\ StaleAtCall(p))
            => /\ result'[p] \in {Returned(Failure(ConflictMessage)),
                                  Returned(Failure(LockFailedMessage))}
               /\ ~ wrote'[p]]_vars

\* a call made with a stale version is over and got the conflict error
C5_Witness ==
  \E p \in Procs :
    /\ pc[p] = "done" /\ StaleAtCall(p) /\ 1 \in ran[p]
    /\ result[p] = Returned(Failure(ConflictMessage))

\* p and q called updateUser on the same user with the same expectedVersion,
\* which was the stored version when each of them was called
SameVersionCalls(p, q) ==
  /\ p # q
  /\ op[p].name = "updateUser" /\ op[q].name = "updateUser"
  /\ op[p].userId = op[q].userId
  /\ op[p].currentVersion # NoVersion
  /\ op[p].currentVersion = op[q].currentVersion
  /\ op[p].storedAtCall = {op[p].currentVersion}
  /\ op[q].storedAtCall = {op[q].currentVersion}

\* C6: of the updateUser calls on one user that present the same
\* expectedVersion v while v is stored, at most one succeeds
C6_AtMostOneSucceeds ==
  \A p, q \in Procs :
    (SameVersionCalls(p, q) /\ pc[p] = "done" /\ pc[q] = "done")
      => ~ (result[p].val.success /\ result[q].val.success)

\* the createUser calls for one privyId
Creators(privyId) ==
  { p \in Procs : op[p].name = "createUser" /\ op[p].privyId = privyId }

AllCreatorsDone(privyId) ==
  /\ Creators(privyId) # {}
  /\ \A p \in Creators(privyId) : pc[p] = "done"

Winners(privyId) ==
  { p \in Creators(privyId) : pc[p] = "done" /\ result[p].val.success }

\* C7 as stated: once the concurrent createUser calls for one privyId are
\* over there is exactly one row, and every call but the creating one
\* returned the Privy-ID uniqueness error
C7_OthersGetUniquenessError ==
  \A privyId \in NewPrivyIds :
    AllCreatorsDone(privyId)
      => /\ Cardinality(FindUserByPrivyId(privyId)) = 1
         /\ Cardinality(Winners(privyId)) = 1
         /\ \A p \in Creators(privyId) \ Winners(privyId) :
              result[p] = Returned(Failure(PrivyIdExistsMessage))

\* C7 amended: there is never more than one row for a privyId; once the
\* calls are over there is exactly one row, exactly one call succeeded and
\* returned that row, and every other call returned the uniqueness error or
\* the lock-acquisition error
C7_OneRowOneWinner ==
  \A privyId \in NewPrivyIds :
    /\ Cardinality(FindUserByPrivyId(privyId)) <= 1
    /\ AllCreatorsDone(privyId)
         => /\ Cardinality(FindUserByPrivyId(privyId)) = 1
            /\ Cardinality(Winners(privyId)) = 1
            /\ \A p \in Winners(privyId) : result[p].val.data \in users
            /\ \A p \in Creators(privyId) \ Winners(privyId) :
                 result[p] \in {Returned(Failure(PrivyIdExistsMessage)),
                                Returned(Failure(LockFailedMessage))}

\* two calls for one privyId are over: one created the row, the other was
\* stopped by the unique constraint after both had found no row
C7_Witness ==
  \E privyId \in NewPrivyIds : \E p \in Winners(privyId), q \in Creators(privyId) :
    /\ p # q /\ AllCreatorsDone(privyId)
    /\ result[q] = Returned(Failure(PrivyIdExistsMessage))
    /\ 1 \in ran[q]

\* C10: when acquireLock gives up, withLock ends with the lock-acquisition
\* failure without invoking fn, and the step writes no user or session row
C10_NoLockNoEffect ==
  [][\A p \in Procs :
       (pc[p] = "reap" /\ pc'[p] \notin {"reap", "acq", "sleep"})
         => /\ Len(lk[p]) \notin ran'[p]
            /\ users' = users /\ sessions' = sessions
            /\ wrote'[p] = wrote[p]
            /\ IF Len(lk[p]) = 1
                 THEN /\ pc'[p] = "done"
                      /\ result'[p] = Returned(Failure(LockFailedMessage))
                      /\ ~ wrote'[p]
                 ELSE /\ pc'[p] = "rel"
                      /\ loc'[p].out = Returned(Failure(LockFailedMessage))]_vars

\* a request is over that never got its lock
C10_Witness ==
  \E p \in Procs :
    /\ pc[p] = "done" /\ ran[p] = {} /\ ~ wrote[p]
    /\ result[p] = Returned(Failure(LockFailedMessage))

----------------------------------------------------------------------------
(* Properties of the session service *)

\* C3: in every committed state at most one session row of a user has
\* isActive = true
C3_OneActiveSessionPerUser ==
  \A s1, s2 \in sessions :
    (s1.userId = s2.userId /\ s1.isActive /\ s2.isActive) => s1.id = s2.id

\* C4: at most one session row exists per (userId, deviceId), and two
\* successful getOrCreateSession calls for one pair return the same id
C4_OneRowPerDevice ==
  /\ \A s1, s2 \in sessions :
       (s1.userId = s2.userId /\ s1.deviceId = s2.deviceId) => s1.id = s2.id
  /\ \A p, q \in Procs :
       (/\ pc[p] = "done" /\ pc[q] = "done"
        /\ op[p].name = "getOrCreateSession" /\ op[q].name = "getOrCreateSession"
        /\ op[p].userId = op[q].userId /\ op[p].deviceId = op[q].deviceId
        /\ result[p].val.success /\ result[q].val.success)
         => result[p].val.data.id = result[q].val.data.id

----------------------------------------------------------------------------
(* releaseLock                                                             *)

\* the step in which the releaseLock call of p's withLock runs
ReleaseStep(p) == pc[p] = "rel" /\ lk'[p] # lk[p]

\* C11: releaseLock(key, ownerToken) deletes exactly the records that match
\* both the key and the owner token and returns true exactly when a record
\* was deleted; when the key is held by another owner's record the call
\* returns false and leaves that record in the table.
C11_ReleaseOnlyOwnRecord ==
  [][\A p \in Procs :
       ReleaseStep(p) =>
         LET f == Top(p) IN
           /\ locks' = { r \in locks : ~ (r.lockKey = f.key /\ r.lockOwner = f.owner) }
           /\ Len(lk[p]) = 1 => loc'[p].released = (locks' # locks)
           /\ (\E r \in locks : r.lockKey = f.key /\ r.lockOwner # f.owner)
                => /\ locks' = locks
                   /\ Len(lk[p]) = 1 => ~ loc'[p].released]_vars

\* a caller that ran fn, lost its record to a reaper and released while
\* another request's record held the key: it got false, the record stayed
C11_Witness ==
  \E p \in Procs :
    /\ pc[p] = "done" /\ 1 \in ran[p] /\ op[p].name = "withLock"
    /\ loc[p] # NoRow
    /\ ~ loc[p].released
    /\ \E r \in loc[p].left : r.lockOwner[1] # p /\ r \in locks

----------------------------------------------------------------------------
(* Device switching *)

\* the step in which the transaction of p's getOrCreateSession commits
SessionCommitStep(p) == pc[p] = "sCommit" /\ pc'[p] # "sCommit"

\* C12: when calls for one user follow one another, a call for device D
\* leaves every session that was active on another device terminated with
\* reason 'new_session_on_different_device' and the session of D active;
\* a call for a device that already has a row reactivates that row (same id,
\* createdAt unchanged, terminatedAt and terminationReason cleared) and
\* adds no row.
C12_SwitchAndReactivate ==
  [][\A p \in Procs :
       SessionCommitStep(p) =>
         LET u    == op[p].userId
             d    == op[p].deviceId
             mine == { s \in sessions : s.userId = u /\ s.deviceId = d }
         IN /\ \A s \in sessions :
                 (s.userId = u /\ s.deviceId # d /\ s.isActive)
                   => \E t \in sessions' :
                        /\ t.id = s.id /\ ~ t.isActive
                        /\ t.terminatedAt # NoTime
                        /\ t.terminationReason = "new_session_on_different_device"
            /\ \E t \in sessions' : t.userId = u /\ t.deviceId = d /\ t.isActive
            /\ \A e \in mine :
                 \E t \in sessions' :
                   /\ t.id = e.id /\ t.createdAt = e.createdAt /\ t.isActive
                   /\ t.terminatedAt = NoTime /\ t.terminationReason = Null
            /\ mine # {} => { t.id : t \in sessions' } = { s.id : s \in sessions }]_vars

\* dev0's session s0 was active, a call for another device terminated it,
\* and a later call for dev0 has reactivated s0 and terminated the other one
C12_Witness ==
  \E p, q \in Procs :
    /\ p # q /\ pc[p] = "done" /\ pc[q] = "done"
    /\ op[p].name = "getOrCreateSession" /\ op[p].deviceId # "dev0"
    /\ op[q].name = "getOrCreateSession" /\ op[q].deviceId = "dev0"
    /\ result[p].val.success /\ result[q].val.success
    /\ \E s \in sessions :
         /\ s.id = "s0" /\ s.isActive /\ s.createdAt = 3 - SessionLifetime
         /\ s.terminatedAt = NoTime /\ s.terminationReason = Null
    /\ \E s \in sessions :
         /\ s.id = NewSessionId(p) /\ ~ s.isActive
         /\ s.terminationReason = "new_session_on_different_device"

\* C13: getOrCreateSession either succeeds or fails because the lock could
\* not be acquired; it never fails with a uniqueness error, whatever
\* idempotencyKey values the callers supply.
C13_NoUniquenessFailure ==
  \A p \in Procs :
    (pc[p] = "done" /\ op[p].name = "getOrCreateSession")
      => \/ result[p].val.success
         \/ result[p].val.error = LockFailedMessage

----------------------------------------------------------------------------
(* The version column *)

\* C14: a user's version is a non-negative integer, and every write that
\* changes the user's row increments it by exactly 1 (it is never
\* decremented, reset or left as it was).
C14_EveryMutationBumpsVersion ==
  [][\A u \in users :
       /\ u.version >= 0
       /\ \A v \in users' :
            (v.id = u.id /\ v # u) => v.version = u.version + 1]_vars

----------------------------------------------------------------------------
(* One wallet address, several users *)

\* the requests that present wallet, those that are over, and those that
\* made their user the holder of it
Claimants(wallet) ==
  { p \in Procs : \/ op[p].name = "createUser" /\ op[p].walletAddress = wallet
                  \/ op[p].name \in {"updateUser", "registerWallet"}
                       /\ op[p].input.walletAddress = wallet }

AllClaimantsDone(wallet) ==
  /\ Claimants(wallet) # {}
  /\ \A p \in Claimants(wallet) : pc[p] = "done"

WalletWinners(wallet) ==
  { p \in Claimants(wallet) : pc[p] = "done" /\ result[p].val.success }

WalletExistsMessage == "Wallet address already registered"

\* C15 as stated: whatever the interleaving of createUser, updateUser and
\* registerWallet calls of different users presenting one walletAddress, at
\* most one user row holds it and every losing call returns 'Wallet address
\* already registered'
C15_LosersGetWalletError ==
  \A wallet \in Wallets :
    /\ Cardinality(FindUserByWallet(wallet)) <= 1
    /\ \A p \in Claimants(wallet) \ WalletWinners(wallet) :
         pc[p] = "done" => result[p] = Returned(Failure(WalletExistsMessage))

\* C15 amended: at most one user row ever holds the walletAddress; a call
\* succeeds only by making its user the holder; once the calls are over
\* exactly one of them succeeded, and every other call returned 'Wallet
\* address already registered' or the lock-acquisition error
C15_OneHolderPerWallet ==
  \A wallet \in Wallets :
    /\ Cardinality(FindUserByWallet(wallet)) <= 1
    /\ \A p \in WalletWinners(wallet) : result[p].val.data \in FindUserByWallet(wallet)
    /\ \A p \in Claimants(wallet) \ WalletWinners(wallet) :
         pc[p] = "done" => result[p] \in {Returned(Failure(WalletExistsMessage)),
                                          Returned(Failure(LockFailedMessage))}
    /\ AllClaimantsDone(wallet) => Cardinality(WalletWinners(wallet)) = 1

\* the calls of two users for one wallet are over: one made its user the
\* holder, the other ran its critical section and returned the domain error
C15_Witness ==
  \E wallet \in Wallets : \E p \in WalletWinners(wallet), q \in Claimants(wallet) :
    /\ p # q /\ AllClaimantsDone(wallet)
    /\ result[q] = Returned(Failure(WalletExistsMessage))
    /\ 1 \in ran[q]
    /\ \E u \in FindUserByWallet(wallet) : u = result[p].val.data

----------------------------------------------------------------------------
(* Failures are results *)

ServiceOps == {"createUser", "updateUser", "registerWallet", "deleteUser",
               "getOrCreateSession"}

\* C16: createUser, updateUser, registerWallet, deleteUser and
\* getOrCreateSession never end with an exception: each call returns a
\* result, and a result that is not a success has success = false and an
\* error message.
C16_FailuresAreReturned ==
  \A p \in Procs :
    (pc[p] = "done" /\ op[p].name \in ServiceOps)
      => /\ result[p].kind = "return"
         /\ \/ result[p].val.success /\ result[p].val.error = Null
            \/ ~ result[p].val.success /\ result[p].val.error # Null

\* a call whose withLock threw the lock-acquisition error has returned it as
\* a result while the call that holds the lock is still in its critical
\* section
C16_Witness ==
  \E p, q \in Procs :
    /\ p # q /\ pc[p] = "done" /\ InCritical(q)
    /\ op[p].name \in ServiceOps /\ op[q].name \in ServiceOps
    /\ result[p].kind = "return" /\ ~ result[p].val.success
    /\ result[p].val.error = LockFailedMessage

----------------------------------------------------------------------------
(* The retry loop of acquireLock *)

\* the step in which p's deleteMany removes an expired record of its key
ReapStep(p) ==
  /\ pc[p] = "reap" /\ pc'[p] # "reap"
  /\ ExpiredLockRows(Top(p).key, now) # {}

\* C17: a contender whose insert failed and whose reap removed an expired
\* record goes straight on to the next insert, and the reap does not use
\* up one of its retries (also when it happens on the last allowed attempt).
C17_ReapKeepsRetrySlot ==
  [][\A p \in Procs :
       ReapStep(p) =>
         /\ pc'[p] = "acq"
         /\ lk'[p][Len(lk'[p])].attempt = Top(p).attempt]_vars

\* the step in which p's prisma.distributedLock.create succeeds
InsertStep(p) ==
  /\ pc[p] = "acq" /\ pc'[p] # "acq"
  /\ \E r \in locks' \ locks : r.lockOwner = Top(p).owner

\* C18: whenever acquireLock succeeds, on whichever attempt, the record it
\* inserts has expiresAt = the time of that insert + timeout, so that the
\* new lock is live.
C18_ExpiryCountsFromInsert ==
  [][\A p \in Procs :
       InsertStep(p) =>
         \A r \in locks' \ locks :
           /\ r.expiresAt = now + Top(p).timeout
           /\ ~ (r.expiresAt < now)]_vars

\* the step in which p's insert has failed and its deleteMany finds the
\* record of the key still live
LiveRecordStep(p) ==
  /\ pc[p] = "reap" /\ pc'[p] # "reap"
  /\ ExpiredLockRows(Top(p).key, now) = {}

\* C19: acquireLock terminates: an insert is only attempted with attempt <=
\* maxRetries and every retry has a higher attempt number, so there are at
\* most maxRetries + 1 inserts; against a record that stays live each
\* failed insert but the last is followed by a sleep that ends later than it
\* began, and after the last one acquireLock returns null, which ends
\* withLock with the lock-acquisition error without fn being invoked.
C19_BoundedAttempts ==
  [][\A p \in Procs :
       /\ pc[p] \in {"acq", "reap", "sleep"}
            => Top(p).attempt >= 0 /\ Top(p).attempt <= Top(p).retries
       /\ (pc[p] \in {"reap", "sleep"} /\ pc'[p] = "acq")
            => lk'[p][Len(lk'[p])].attempt = Top(p).attempt + 1
       /\ (pc[p] = "sleep" /\ pc'[p] = "acq") => now >= Top(p).wake
       /\ LiveRecordStep(p) =>
            IF Top(p).attempt < Top(p).retries
              THEN /\ pc'[p] = "sleep"
                   /\ lk'[p][Len(lk'[p])].wake > now
                   /\ locks' = locks
              ELSE /\ locks' = locks /\ ran'[p] = ran[p]
                   /\ lk'[p] = SubSeq(lk[p], 1, Len(lk[p]) - 1)
                   /\ IF Len(lk[p]) = 1
                        THEN /\ pc'[p] = "done"
                             /\ result'[p] = OpResult(op[p], Thrown(LockFailedError(Top(p).key)))
                        ELSE /\ pc'[p] = "rel"
                             /\ loc'[p].out = Returned(Failure(LockFailedMessage))]_vars

\* a caller has given up after its last insert failed against the record of
\* a holder that is still in its critical section with a live record
C19_Witness ==
  \E p, q \in Procs :
    /\ p # q /\ pc[p] = "done" /\ op[p].name = "withLock" /\ ran[p] = {}
    /\ result[p] = Thrown(LockFailedError(op[p].key))
    /\ now >= DEFAULT_RETRY_DELAY
    /\ pc[q] = "fn" /\ \E r \in RowOf(Top(q)) : Live(r) /\ r.lockKey = op[p].key

\* the acquireLock calls in progress
Acquiring == { p \in Procs : pc[p] \in {"acq", "reap", "sleep"} }

\* C20 as stated: the time one acquireLock call spends sleeping between its
\* attempts is at most retryDelay * maxRetries
C20_SleepAtMostDelayTimesRetries ==
  \A p \in Acquiring :
    Top(p).slept <= Top(p).retryDelay * Top(p).retries

\* C20 amended: the time one acquireLock call spends sleeping is at most
\* retryDelay * (1 + 2 + ... + maxRetries) = retryDelay * maxRetries *
\* (maxRetries + 1) / 2, and it has slept retryDelay * (1 + ... + k) when it
\* makes its attempt number k against a record that stayed live
C20_SleepAtMostTriangular ==
  \A p \in Acquiring :
    LET f == Top(p) IN
      /\ f.slept >= 0
      /\ 2 * f.slept <= f.retryDelay * f.retries * (f.retries + 1)
      /\ pc[p] # "sleep" => 2 * f.slept = f.retryDelay * f.attempt * (f.attempt + 1)

\* a call with at least 2 retries and a positive retryDelay is at its last
\* attempt and has slept longer than retryDelay * maxRetries
C20_Witness ==
  \E p \in Acquiring :
    LET f == Top(p) IN
      /\ f.retries >= 2 /\ f.retryDelay > 0 /\ f.attempt = f.retries
      /\ pc[p] = "reap"
      /\ f.slept > f.retryDelay * f.retries
      /\ 2 * f.slept = f.retryDelay * f.retries * (f.retries + 1)

----------------------------------------------------------------------------
(* renewLock *)

\* the step in which fn's renewLock call of p runs
RenewStep(p) ==
  /\ pc[p] = "fn" /\ pc'[p] = "fn" /\ op[p].name = "withLock"
  /\ loc'[p] # loc[p]

\* C21: renewLock(key, ownerToken, extension) changes only records that
\* match both the key and the owner token (it gives them expiresAt = now +
\* extension, and neither adds nor removes a record) and returns true
\* exactly when a record was updated; when no record matches (the caller's
\* record was reaped, the key may be held by another owner) it returns false
\* and the lock table is unchanged.
C21_RenewOnlyOwnRecord ==
  [][\A p \in Procs :
       RenewStep(p) =>
         LET f    == Top(p)
             mine == { r \in locks : r.lockKey = f.key /\ r.lockOwner = f.owner }
         IN /\ locks \ mine \subseteq locks'
            /\ \A r \in locks' \ locks :
                 \E m \in mine : r = [m EXCEPT !.expiresAt = r.expiresAt]
            /\ \A r \in locks' :
                 (r.lockKey = f.key /\ r.lockOwner = f.owner)
                   => \E ext \in Extensions : r.expiresAt = now + ext
            /\ Cardinality(locks') = Cardinality(locks)
            /\ loc'[p].renewed = (mine # {})
            /\ mine = {} => locks' = locks /\ ~ loc'[p].renewed]_vars

\* a caller whose record had been reaped renewed while another request's
\* record held the key: it got false, and that record is as it was
C21_Witness ==
  \E p \in Procs :
    /\ pc[p] = "fn" /\ op[p].name = "withLock"
    /\ loc[p].renews = 1 /\ ~ loc[p].renewed
    /\ \E r \in loc[p].others : r.lockOwner[1] # p /\ r \in locks



----------------------------------------------------------------------------
\* the request is the one that arrived while the holder was in fn
Contender(p) == pc[p] # "idle" /\ op[p].name = "withLock" /\ op[p].role = "contender"

\* C22: with timeout 1000 ms and retry delay 300 ms, when the holder stays in
\* fn for 1500 ms and a contender arrives while it holds the lock, the
\* contender deletes the holder's record only at or after the 1000 ms mark,
\* never gives up, never makes a fifth insert, and ends up holding the lock.
C22_HandedOverByFourthInsert ==
  /\ [][\A p \in Procs :
         (Contender(p) /\ pc[p] = "reap" /\ locks' # locks) =>
            \A r \in locks \ locks' : \E t \in HandoffTimeouts :
               /\ r.expiresAt = t
               /\ now >= r.expiresAt]_vars
  /\ [](\A p \in Procs :
         Contender(p) =>
            /\ pc[p] \in {"acq", "reap", "sleep"} => Top(p).attempt + 1 <= 4
            /\ pc[p] # "done")
  /\ \A p \in Procs :
       Contender(p) ~>
         (pc[p] = "fn" /\ LockRow(Top(p).key, Top(p).owner, Top(p).expiresAt) \in locks)

\* the contender has deleted the expired record while the holder is still in
\* fn and is about to make its fourth insert
C22_Witness ==
  \E p, q \in Procs :
    /\ op[p].name = "withLock" /\ op[p].role = "contender"
    /\ pc[p] = "acq" /\ Top(p).attempt = 3
    /\ pc[q] = "fn" /\ op[q].role = "holder"
    /\ now > 10 /\ now < 15
    /\ { r \in locks : r.lockKey = Top(p).key } = {}

----------------------------------------------------------------------------
\* C23: every wallet collision check and every write of a walletAddress
\* (createUser with a wallet, updateUser with a new wallet, registerWallet)
\* is made by a request that has acquired 'wallet:<address>'.
C23_WalletWritesUnderWalletLock ==
  [][LET \* the wallet address the request is about to check or write
         CandidateWallet(p) ==
           IF op[p].name = "createUser" THEN op[p].walletAddress
                                        ELSE op[p].input.walletAddress
         \* acquireLock for `key` has returned an owner token to the request
         \* and the matching releaseLock has not run yet
         HasAcquired(p, key) ==
           \E i \in 1..Len(lk[p]) :
             /\ lk[p][i].key = key
             /\ i < Len(lk[p]) \/ InCritical(p)
         \* the request runs a wallet collision check or writes a wallet address
         WalletStep(p) ==
           /\ pc[p] \in {"cWallet", "uWallet", "cWrite", "uWrite"}
           /\ pc'[p] # pc[p]
           /\ CandidateWallet(p) # Null
     IN \A p \in Procs :
             WalletStep(p) => HasAcquired(p, getWalletLockKey(CandidateWallet(p)))]_vars

----------------------------------------------------------------------------
\* updateUser hands its response to the caller
UpdateUserDone(p) == pc[p] # "done" /\ pc'[p] = "done" /\ op[p].name = "updateUser"

\* the call named no expected version, or the stored one
VersionAccepted(p) ==
  op[p].currentVersion = NoVersion \/ op[p].currentVersion \in op[p].storedAtCall

\* the response is the patched row, one version above the one stored at
\* the call, and that row is the stored one
PatchApplied(p) ==
  /\ result'[p].kind = "return" /\ result'[p].val.success
  /\ wrote'[p]
  /\ LET row == result'[p].val.data IN
       /\ row \in users'
       /\ row.id = op[p].userId
       /\ row.version - 1 \in op[p].storedAtCall
       /\ op[p].input.displayName # Null => row.displayName = op[p].input.displayName
       /\ op[p].input.walletAddress # Null => row.walletAddress = op[p].input.walletAddress

----------------------------------------------------------------------------
\* C25: when getOrCreateSession reactivates the row of (userId, deviceId),
\* each device metadata column the call does not supply keeps its stored
\* value, and the row's id, userId, deviceId and createdAt are unchanged.
C25_UnsuppliedMetadataKept ==
  [][\A p \in Procs :
       (/\ SessionCommitStep(p)
        /\ op[p].name = "getOrCreateSession"
        /\ loc[p].existing # NoRow) =>
         \A e \in { s \in sessions : s.id = loc[p].existing.id } :
           \E t \in sessions' :
             /\ t.id = e.id /\ t.userId = e.userId
             /\ t.deviceId = e.deviceId /\ t.createdAt = e.createdAt
             /\ { r \in sessions' : r.id = e.id } = {t}
             /\ op[p].deviceName = Null => t.deviceName = e.deviceName
             /\ op[p].pushToken = Null =>
                   /\ t.pushToken = e.pushToken
                   /\ t.pushTokenUpdatedAt = e.pushTokenUpdatedAt]_vars

\* a call that supplied neither a device name nor a push token has
\* reactivated s0, whose row had been terminated by a call for another
\* device, and the row still carries the name and token it had
C25_Witness ==
  \E p, q \in Procs :
    /\ pc[p] = "done" /\ pc[q] = "done"
    /\ op[p].name = "getOrCreateSession" /\ op[p].deviceId # "dev0"
    /\ op[q].name = "getOrCreateSession" /\ op[q].deviceId = "dev0"
    /\ op[q].deviceName = Null /\ op[q].pushToken = Null
    /\ result[q].val.success /\ result[q].val.data.id = "s0"
    /\ \E s \in sessions :
         /\ s.id = "s0" /\ s.isActive /\ s.deviceName = "old" /\ s.pushToken = "tok0"
         /\ s.pushTokenUpdatedAt = 0 /\ s.createdAt = 3 - SessionLifetime
    /\ \E s \in sessions : s.id = NewSessionId(p) /\ ~ s.isActive

----------------------------------------------------------------------------
\* C26: a getOrCreateSession call changes the sessions table in one step
\* only, the commit of its transaction, which applies the termination of the
\* other sessions and the creation or reactivation together and is followed
\* by success; a call that fails inside its critical section has changed no
\* session row.
C26_FailedCallChangesNothing ==
  [][\A p \in Procs :
       /\ (/\ op[p].name = "getOrCreateSession"
           /\ InCritical(p)
           /\ pc'[p] # pc[p] \/ loc'[p] # loc[p]) =>
            IF SessionCommitStep(p)
              THEN /\ \A r \in loc[p].pend : r \in sessions'
                   /\ \A t \in sessions' : t \in sessions \/ t \in loc[p].pend
                   /\ loc'[p].out.kind = "return" /\ loc'[p].out.val.success
              ELSE sessions' = sessions
       /\ (/\ pc[p] # "done" /\ pc'[p] = "done" /\ op[p].name = "getOrCreateSession"
           /\ ~ result'[p].val.success)
            => ~ wrote'[p] /\ sessions' = sessions]_vars

\* a call for a new device was rejected by the unique index on
\* idempotency_key after its transaction had terminated the user's active
\* session on another device, and that session is still active
C26_Witness ==
  \E p \in Procs :
    /\ pc[p] = "done" /\ op[p].name = "getOrCreateSession"
    /\ result[p] = Returned(Failure(P2002("idempotency_key").message))
    /\ ~ wrote[p]
    /\ \E s \in sessions :
         /\ s.userId = op[p].userId /\ s.deviceId # op[p].deviceId
         /\ s.isActive /\ s.terminatedAt = NoTime /\ s.terminationReason = Null
    /\ ~ \E s \in sessions : s.userId = op[p].userId /\ s.deviceId = op[p].deviceId

----------------------------------------------------------------------------
\* C27: terminateSession, terminateAllUserSessions and the expiry sweep
\* delete no session row, add none, leave every row they write inactive,
\* and so change isActive only from true to false.
C27_TerminationOnlyDeactivates ==
  [][(\/ \E p \in Procs : pc[p] = "idle" /\ pc'[p] = "done"
      \/ \E p \in Procs : pc[p] = "taUpd" /\ (pc'[p] # pc[p] \/ loc'[p] # loc[p])
      \/ pc' = pc /\ loc' = loc /\ sessions' # sessions) =>
       /\ { t.id : t \in sessions' } = { s.id : s \in sessions }
       /\ Cardinality(sessions') = Cardinality(sessions)
       /\ \A t \in sessions' \ sessions : ~ t.isActive
       /\ \A s \in sessions, t \in sessions' :
            (t.id = s.id /\ t.isActive # s.isActive) => (s.isActive /\ ~ t.isActive)]_vars

\* terminateAllUserSessions has terminated the one active session and
\* terminateSession has then run on that row: the row is still there, still
\* inactive, and carries the later caller's reason
C27_Witness ==
  \E p, q \in Procs :
    /\ pc[p] = "done" /\ op[p].name = "terminateSession"
    /\ pc[q] = "done" /\ op[q].name = "terminateAllUserSessions"
    /\ result[q].val.data.count = 1
    /\ \E s \in sessions :
         /\ s.id = op[p].sessionId
         /\ ~ s.isActive /\ s.terminationReason \in TerminateReasons
    /\ \A s \in sessions : ~ s.isActive

----------------------------------------------------------------------------
\* C28: when terminateAllUserSessions(U) and getOrCreateSession(U, D)
\* overlap, then once both have completed user U has exactly one active
\* session.
C28_OneActiveAfterRace ==
  \A p, q \in Procs :
    (/\ pc[p] = "done" /\ op[p].name = "getOrCreateSession"
     /\ pc[q] = "done" /\ op[q].name = "terminateAllUserSessions"
     /\ op[q].userId = op[p].userId)
      => Cardinality({ s \in sessions : s.userId = op[p].userId /\ s.isActive }) = 1

----------------------------------------------------------------------------
\* C29: loginWithPrivy, logout, deleteUser, updateSession and extendSession
\* create no session row and leave isActive, terminatedAt and
\* terminationReason of every session row unchanged.
C29_OnlySessionServiceWritesStatus ==
  [][\A p \in Procs :
       (/\ op'[p].name \in {"loginWithPrivy", "logout", "deleteUser",
                             "updateSession", "extendSession"}
        /\ pc'[p] # pc[p] \/ loc'[p] # loc[p]) =>
         /\ { t.id : t \in sessions' } = { s.id : s \in sessions }
         /\ \A s \in sessions, t \in sessions' :
              t.id = s.id =>
                /\ t.isActive = s.isActive
                /\ t.terminatedAt = s.terminatedAt
                /\ t.terminationReason = s.terminationReason]_vars

----------------------------------------------------------------------------
\* C30: PUT /api/v1/users/:id answers 409 exactly when updateUser failed
\* with a version conflict and 404 exactly when the user does not exist;
\* no other failure of updateUser is reported as 404 or 409.
C30_StatusNamesTheFailure ==
  \A p \in Procs :
    (pc[p] = "replied" /\ op[p].name = "updateUser") =>
      /\ loc[p].status = 409 <=> result[p] = Returned(Failure(ConflictMessage))
      /\ loc[p].status = 404 <=> result[p] = Returned(Failure("User not found"))

----------------------------------------------------------------------------
\* C31: a renewLock that returns true never moves its record's expiresAt
\* earlier: the record expires no sooner after the call than before it.
C31_RenewNeverShortens ==
  [][\A p \in Procs :
       (RenewStep(p) /\ loc'[p].renewed) =>
         \A r \in locks, t \in locks' :
           (/\ r.lockKey = Top(p).key /\ r.lockOwner = Top(p).owner
            /\ t.lockKey = r.lockKey /\ t.lockOwner = r.lockOwner)
             => t.expiresAt >= r.expiresAt]_vars

\* C32: isLockHeld never deletes a live lock record: whatever other requests
\* do between its read and its delete, every record its delete removes has
\* an expiresAt that has passed at the moment of the delete.
C32_IsLockHeldDeletesOnlyExpired ==
  [][\A p \in Procs :
       IsLockHeldDelete(p) => \A r \in locks \ locks' : r.expiresAt < now]_vars

\* C33: the reap inside acquireLock and the periodic cleanupExpiredLocks
\* delete only records whose expiresAt has passed at the moment of the
\* delete; a record that is live then, such as one just acquired or renewed,
\* stays in the table.
C33_ReapDeletesOnlyExpired ==
  [][((\E p \in Procs : AcquireReap(p)) \/ CleanupExpiredLocks) =>
       /\ \A r \in locks \ locks' : r.expiresAt < now
       /\ \A r \in locks : Live(r) => r \in locks']_vars

\* the reap of a waiting request has just deleted the record of a holder whose
\* expiresAt had passed, and the request is about to insert its own
C33_Witness ==
  \E p \in Procs, q \in Procs :
    /\ pc[p] = "acq" /\ Top(p).attempt = 1 /\ Top(p).slept = 0
    /\ pc[q] \in {"fn", "crashed"} /\ Top(q).key = Top(p).key
    /\ Top(q).expiresAt < now
    /\ FindLock(Top(p).key) = {}

\* C34: nested lock acquisition has a fixed order.  Only registerWallet holds
\* two locks, the wallet lock taken first and the user lock second; no
\* request takes a wallet lock while it holds a user lock; and every
\* createUser, updateUser, registerWallet, deleteUser and getOrCreateSession
\* call eventually returns.
C34_WalletBeforeUserAndAllReturn ==
  /\ [](\A p \in Procs :
          /\ Len(lk[p]) <= 2
          /\ Len(lk[p]) = 2 =>
                /\ op[p].name = "registerWallet"
                /\ lk[p][1].key[1] = "wallet"
                /\ lk[p][2].key[1] = "user"
          /\ (Len(lk[p]) >= 1 /\ op[p].name = "registerWallet") =>
                lk[p][1].key[1] = "wallet"
          /\ (Len(lk[p]) >= 1 /\ op[p].name # "registerWallet") =>
                lk[p][1].key[1] # "wallet")
  /\ \A p \in Procs : (pc[p] \notin {"idle", "done"}) ~> (pc[p] = "done")

\* a registerWallet call holds the wallet lock and sleeps in the acquireLock
\* of its nested updateUser, whose user lock another request holds
C34_Witness ==
  \E p \in Procs, q \in Procs :
    /\ p # q
    /\ Len(lk[p]) = 2 /\ pc[p] = "sleep"
    /\ LockRow(lk[p][1].key, lk[p][1].owner, lk[p][1].expiresAt) \in locks
    /\ Len(lk[q]) = 1 /\ pc[q] = "fn"
    /\ lk[q][1].key = lk[p][2].key
    /\ \E r \in locks : r.lockKey = lk[q][1].key /\ r.lockOwner = lk[q][1].owner

\* C36: a session row is written as terminated with reason 'expired' only
\* when its stored expiresAt has passed at the moment of that write; a
\* getActiveSession that overlaps a getOrCreateSession never terminates a
\* row whose expiresAt the reactivation has just refreshed.
C36_ExpiredOnlyWhenPastExpiry ==
  [][\A s \in sessions, t \in sessions' :
       (/\ t.id = s.id
        /\ ~ t.isActive /\ t.terminationReason = "expired"
        /\ (s.isActive \/ s.terminationReason # "expired" \/ s.terminatedAt # t.terminatedAt))
         => s.expiresAt < now]_vars

\* C35: in every committed state every session row has isActive = true
\* exactly when terminatedAt and terminationReason are both null, and every
\* write that flips isActive sets or clears both fields with it.
C35_ActiveIffNotTerminated ==
  /\ [](\A s \in sessions :
          s.isActive <=> (s.terminatedAt = NoTime /\ s.terminationReason = Null))
  /\ [][\A s \in sessions, t \in sessions' :
          (t.id = s.id /\ t.isActive # s.isActive) =>
            /\ (t.terminatedAt = NoTime) # (s.terminatedAt = NoTime)
            /\ (t.terminationReason = Null) # (s.terminationReason = Null)]_vars

\* a row that logout terminated has been reactivated by getOrCreateSession:
\* it is active again and both termination fields are null again
C35_Witness ==
  \E s \in sessions :
    /\ s.isActive /\ s.createdAt < 0 /\ s.expiresAt > MaxTime
    /\ s.terminatedAt = NoTime /\ s.terminationReason = Null
    /\ \E p \in Procs : pc[p] = "done" /\ op[p].name = "logout" /\ op[p].sessionId = s.id

\* C37: in every state reached after deleteUser(U) has returned success,
\* user U, whose status is 'deleted', has no session with isActive = true,
\* whatever getOrCreateSession or loginWithPrivy calls for U follow.
C37_DeletedUserHasNoActiveSession ==
  \A p \in Procs :
    (/\ pc[p] = "done" /\ op[p].name = "deleteUser"
     /\ result[p].kind = "return" /\ result[p].val.success)
      => /\ \A u \in FindUserById(op[p].userId) : u.status = "deleted"
         /\ ~ \E s \in sessions : s.userId = op[p].userId /\ s.isActive

\* C38: loginWithPrivy with a deviceId preserves the session invariants: a
\* user with at most one active session has at most one after the login,
\* and a login from a device that already has a session row writes that row
\* and inserts no second row for the same user and device.
C38_LoginKeepsSessionInvariants ==
  [][\A p \in Procs :
       (pc[p] = "lgWrite" /\ pc'[p] = "done") =>
         /\ Cardinality({ s \in sessions : s.userId = op[p].userId /\ s.isActive }) <= 1
              => Cardinality({ s \in sessions' : s.userId = op[p].userId /\ s.isActive }) <= 1
         /\ (\E s \in sessions : s.userId = op[p].userId /\ s.deviceId = op[p].deviceId)
              => { s.id : s \in sessions' } = { s.id : s \in sessions }]_vars
====
